---- MODULE Spec2Model ----
(***************************************************************************)
(* Recommendation pipeline of BoostIQ Pro Mobile:                          *)
(*   services/AdvancedAIOptimization.ts (two versions of the module are    *)
(*   kept in the file: the "debug" version, lines 1-359, and the "full"    *)
(*   version, lines 361-659), services/MockAIOptimization.ts, the          *)
(*   DeviceMetrics service (src/unnamed/part_000), the basic pipeline      *)
(*   services/AIOptimization.ts and the four optimize screens that drive   *)
(*   them (screens/OptimizeScreen.tsx, screens/AdvancedOptimizeScreen.tsx, *)
(*   src/unnamed/part_004, src/unnamed/part_006).                          *)
(*                                                                         *)
(* JavaScript values are modelled as uniform records so that any two of    *)
(* them can be compared; strings are TLA+ strings, processed character by  *)
(* character as the regular expressions and JSON.parse of the code do.     *)
(* Numbers are restricted to integers (JSON number literals with a         *)
(* fraction or an exponent are outside the inputs of the model).           *)
(***************************************************************************)
EXTENDS Integers, Sequences, FiniteSets, TLC

(***************************************************************************)
(* JavaScript values                                                       *)
(***************************************************************************)
JSVal(kind, num, str, bool, arr) ==
    [k |-> kind, n |-> num, s |-> str, b |-> bool, a |-> arr]

Undef == JSVal("undefined", 0, "", FALSE, <<>>)

Null == JSVal("null", 0, "", FALSE, <<>>)

Num(x) == JSVal("number", x, "", FALSE, <<>>)

Str(x) == JSVal("string", 0, x, FALSE, <<>>)

Bool(x) == JSVal("boolean", 0, "", x, <<>>)

\* an array: a is the sequence of its elements
Arr(x) == JSVal("array", 0, "", FALSE, x)

\* an object: a is the sequence of its members [key, val], in source order
Obj(x) == JSVal("object", 0, "", FALSE, x)

Member(key, val) == [key |-> key, val |-> val]

\* obj.key : the last member of that name, undefined when there is none
\* (a property read on a string, number, boolean or array yields undefined
\* for the names used here)
Get(obj, key) ==
    LET idx == {i \in 1..Len(obj.a) : obj.a[i].key = key}
    IN  IF obj.k = "object" /\ idx # {}
        THEN obj.a[CHOOSE i \in idx : \A j \in idx : j <= i].val
        ELSE Undef

\* JavaScript truthiness (the operand of && in the validity filter)
Truthy(v) ==
    CASE v.k = "string" -> v.s # ""
      [] v.k = "number" -> v.n # 0
      [] v.k = "boolean" -> v.b
      [] v.k \in {"array", "object"} -> TRUE
      [] OTHER -> FALSE

(***************************************************************************)
(* Strings, character by character                                         *)
(***************************************************************************)
\* the character at position i, "" outside the string
Ch(s, i) == IF i >= 1 /\ i <= Len(s) THEN SubSeq(s, i, i) ELSE ""

Slice(s, i, j) == IF i <= j THEN SubSeq(s, i, j) ELSE ""

StartsWith(s, p) == Len(s) >= Len(p) /\ Slice(s, 1, Len(p)) = p

\* String.prototype.includes
Includes(s, p) == \E i \in 1..(Len(s) - Len(p) + 1) : Slice(s, i, i + Len(p) - 1) = p

Upper == "ABCDEFGHIJKLMNOPQRSTUVWXYZ"

Lower == "abcdefghijklmnopqrstuvwxyz"

LowerCh(c) ==
    LET idx == {i \in 1..Len(Upper) : Ch(Upper, i) = c}
    IN  IF idx = {} THEN c ELSE Ch(Lower, CHOOSE i \in idx : TRUE)

\* the concatenation of pieces[lo..hi], by halves (the evaluation depth
\* stays logarithmic in the length of the text)
RECURSIVE ConcatRange(_, _, _)
ConcatRange(pieces, lo, hi) ==
    IF lo > hi THEN ""
    ELSE IF lo = hi THEN pieces[lo]
    ELSE ConcatRange(pieces, lo, (lo + hi) \div 2)
            \o ConcatRange(pieces, (lo + hi) \div 2 + 1, hi)

Concat(pieces) == ConcatRange(pieces, 1, Len(pieces))

\* String.prototype.toLowerCase
ToLowerCase(s) == Concat([i \in 1..Len(s) |-> LowerCh(Ch(s, i))])

\* the characters the regular expression class \s matches (of those used)
JsSpace == {" ", "\t", "\n", "\r", "\f"}

\* the line terminators matched by /(\r\n|\n|\r)/
NewlineCh == {"\n", "\r"}

LastIndexOf(s, c) ==
    LET idx == {i \in 1..Len(s) : Ch(s, i) = c}
    IN  IF idx = {} THEN 0 ELSE CHOOSE i \in idx : \A j \in idx : j <= i

(***************************************************************************)
(* The regular expressions of parseAIResponse                              *)
(***************************************************************************)
\* content.match(/\[[\s\S]*\]|\{[\s\S]*\}/): the leftmost position holding
\* "[" with a later "]" or "{" with a later "}", up to the LAST such closer
\* (the quantifier is greedy); found = FALSE when match() returns null
MatchJson(content) ==
    LET lastB == LastIndexOf(content, "]")
        lastC == LastIndexOf(content, "}")
        starts == {i \in 1..Len(content) :
                      \/ Ch(content, i) = "[" /\ lastB > i
                      \/ Ch(content, i) = "{" /\ lastC > i}
        first == CHOOSE i \in starts : \A j \in starts : i <= j
    IN  IF starts = {} THEN [found |-> FALSE, text |-> ""]
        ELSE [found |-> TRUE,
              text |-> Slice(content, first,
                             IF Ch(content, first) = "[" THEN lastB ELSE lastC)]

\* .replace(/(\r\n|\n|\r)/gm, ''): every line terminator is deleted
RemoveNewlines(s) ==
    Concat([i \in 1..Len(s) |-> IF Ch(s, i) \in NewlineCh THEN "" ELSE Ch(s, i)])

\* the first position >= i that holds no character of `skip` (Len(s)+1 at most)
RECURSIVE SkipOver(_, _, _)
SkipOver(s, i, skip) == IF Ch(s, i) \in skip THEN SkipOver(s, i + 1, skip) ELSE i

\* the last position <= i that holds no character of `skip` (0 at least)
RECURSIVE SkipBack(_, _, _)
SkipBack(s, i, skip) == IF Ch(s, i) \in skip THEN SkipBack(s, i - 1, skip) ELSE i

SkipSpace(s, i) == SkipOver(s, i, JsSpace)

\* .replace(/\s+/g, ' '): the first character of a run of white space
\* becomes one space, the rest of the run is deleted
CollapseSpaces(s) ==
    Concat([i \in 1..Len(s) |->
              IF Ch(s, i) \notin JsSpace THEN Ch(s, i)
              ELSE IF Ch(s, i - 1) \in JsSpace THEN "" ELSE " "])

\* .trim()
Trim(s) ==
    LET keep == {i \in 1..Len(s) : Ch(s, i) \notin JsSpace}
    IN  IF keep = {} THEN ""
        ELSE Slice(s, CHOOSE i \in keep : \A j \in keep : i <= j,
                      CHOOSE i \in keep : \A j \in keep : j <= i)

\* the clean-up of the extracted text (lines 105-108 / 442-445)
CleanJson(s) == Trim(CollapseSpaces(RemoveNewlines(s)))

\* position i starts a match of /<open>\s*<close>/
GapAt(s, i, open, close) == Ch(s, i) = open /\ Ch(s, SkipSpace(s, i + 1)) = close

\* position i lies inside a match that started before it (matches cannot
\* overlap: between open and close there is only white space)
InGap(s, i, open, close) ==
    /\ i > 1
    /\ Ch(s, SkipSpace(s, i)) = close
    /\ Ch(s, SkipBack(s, i - 1, JsSpace)) = open

\* s.replace(/<open>\s*<close>/g, repl) for single characters open # close
ReplaceGap(s, open, close, repl) ==
    Concat([i \in 1..Len(s) |->
              IF GapAt(s, i, open, close) THEN repl
              ELSE IF InGap(s, i, open, close) THEN "" ELSE Ch(s, i)])

\* the textual repair of lines 129-136 / 462-469
RepairJson(s) ==
    LET a == ReplaceGap(s, "}", "{", "},{")
        b == ReplaceGap(a, ",", "]", "]")
        c == ReplaceGap(b, ",", "}", "}")
    IN  IF StartsWith(c, "[") THEN c ELSE "[" \o c \o "]"

(***************************************************************************)
(* JSON.parse (ECMA-404) on integers, strings, literals, arrays, objects   *)
(***************************************************************************)
JsonWs == {" ", "\t", "\n", "\r"}

Digits == "0123456789"

IsDigit(c) == c # "" /\ Includes(Digits, c)

DigitVal(c) == (CHOOSE i \in 1..Len(Digits) : Ch(Digits, i) = c) - 1

PFail == [ok |-> FALSE, v |-> Undef, i |-> 0]

POk(v, i) == [ok |-> TRUE, v |-> v, i |-> i]

SkipJsonWs(s, i) == SkipOver(s, i, JsonWs)

\* the start of the run of backslashes that ends just before position j
RECURSIVE RunStart(_, _)
RunStart(s, j) == IF Ch(s, j - 1) = "\\" THEN RunStart(s, j - 1) ELSE j

\* inside a string literal: position j holds an escaped character (it
\* follows an odd run of backslashes; the opening quote ends any run)
Escaped(s, j) == (j - RunStart(s, j)) % 2 = 1

\* the character an escape sequence \c stands for ("" when it is no escape)
Unescape(c) ==
    CASE c \in {"\"", "\\", "/"} -> c
      [] c = "n" -> "\n"
      [] c = "t" -> "\t"
      [] c = "r" -> "\r"
      [] OTHER -> ""

\* the position of the first unescaped quote at or after j, 0 when the
\* text ends before one
RECURSIVE ClosingQuote(_, _)
ClosingQuote(s, j) ==
    IF j > Len(s) THEN 0
    ELSE IF Ch(s, j) = "\\" THEN ClosingQuote(s, j + 2)
    ELSE IF Ch(s, j) = "\"" THEN j
    ELSE ClosingQuote(s, j + 1)

\* the literal between positions i and close - 1, close being its closing
\* quote (0: none): unescaped control characters and unknown escapes are
\* syntax errors
StringBetween(s, i, close) ==
    IF close = 0 THEN PFail
    ELSE IF \E j \in i..(close - 1) :
               \/ ~Escaped(s, j) /\ Ch(s, j) \in {"\t", "\n", "\r", "\f"}
               \/ Escaped(s, j) /\ Unescape(Ch(s, j)) = ""
         THEN PFail
    ELSE POk(Str(Concat([n \in 1..(close - i) |->
                  IF Escaped(s, i + n - 1) THEN Unescape(Ch(s, i + n - 1))
                  ELSE IF Ch(s, i + n - 1) = "\\" THEN "" ELSE Ch(s, i + n - 1)])),
             close + 1)

\* a string literal whose first character (after the opening quote) is at
\* position i: it ends at the first unescaped quote
ParseString(s, i) == StringBetween(s, i, ClosingQuote(s, i))

RECURSIVE ParseDigits(_, _, _)
ParseDigits(s, i, acc) ==
    IF IsDigit(Ch(s, i)) THEN ParseDigits(s, i + 1, 10 * acc + DigitVal(Ch(s, i)))
    ELSE POk(Num(acc), i)

Negated(r) == POk(Num(0 - r.v.n), r.i)

\* an integer literal: -? (0 | [1-9][0-9]*)
ParseNumber(s, i) ==
    IF Ch(s, i) = "-"
    THEN IF ~IsDigit(Ch(s, i + 1)) THEN PFail
         ELSE IF Ch(s, i + 1) = "0" /\ IsDigit(Ch(s, i + 2)) THEN PFail
         ELSE Negated(ParseDigits(s, i + 1, 0))
    ELSE IF Ch(s, i) = "0" /\ IsDigit(Ch(s, i + 1)) THEN PFail
    ELSE ParseDigits(s, i, 0)

ParseLiteral(s, i, word, v) ==
    IF i + Len(word) - 1 <= Len(s) /\ Slice(s, i, i + Len(word) - 1) = word
    THEN POk(v, i + Len(word)) ELSE PFail

\* The grammar, one operator per point of the text a decision is taken at
\* (each intermediate result is handed on as an argument).
RECURSIVE ParseValue(_, _), ParseElements(_, _, _), ParseMembers(_, _, _)
RECURSIVE ValueAt(_, _), ArrayAt(_, _), ObjectAt(_, _)
RECURSIVE ElementParsed(_, _, _), ElementsNext(_, _, _)
RECURSIVE MemberKey(_, _, _), MemberColon(_, _, _), MemberParsed(_, _, _, _), MembersNext(_, _, _)

ParseValue(s, i0) == ValueAt(s, SkipJsonWs(s, i0))

ValueAt(s, i) ==
    CASE Ch(s, i) = "[" -> ArrayAt(s, SkipJsonWs(s, i + 1))
      [] Ch(s, i) = "{" -> ObjectAt(s, SkipJsonWs(s, i + 1))
      [] Ch(s, i) = "\"" -> ParseString(s, i + 1)
      [] Ch(s, i) = "t" -> ParseLiteral(s, i, "true", Bool(TRUE))
      [] Ch(s, i) = "f" -> ParseLiteral(s, i, "false", Bool(FALSE))
      [] Ch(s, i) = "n" -> ParseLiteral(s, i, "null", Null)
      [] Ch(s, i) = "-" \/ IsDigit(Ch(s, i)) -> ParseNumber(s, i)
      [] OTHER -> PFail

ArrayAt(s, j) ==
    IF Ch(s, j) = "]" THEN POk(Arr(<<>>), j + 1) ELSE ParseElements(s, j, <<>>)

ObjectAt(s, j) ==
    IF Ch(s, j) = "}" THEN POk(Obj(<<>>), j + 1) ELSE ParseMembers(s, j, <<>>)

ParseElements(s, i, acc) == ElementParsed(s, ParseValue(s, i), acc)

ElementParsed(s, r, acc) ==
    IF ~r.ok THEN PFail ELSE ElementsNext(s, SkipJsonWs(s, r.i), Append(acc, r.v))

ElementsNext(s, j, acc) ==
    IF Ch(s, j) = "," THEN ParseElements(s, j + 1, acc)
    ELSE IF Ch(s, j) = "]" THEN POk(Arr(acc), j + 1)
    ELSE PFail

ParseMembers(s, i0, acc) == MemberKey(s, SkipJsonWs(s, i0), acc)

MemberKey(s, i, acc) ==
    IF Ch(s, i) = "\"" THEN MemberColon(s, ParseString(s, i + 1), acc) ELSE PFail

MemberColon(s, key, acc) ==
    IF key.ok /\ Ch(s, SkipJsonWs(s, key.i)) = ":"
    THEN MemberParsed(s, key.v.s, ParseValue(s, SkipJsonWs(s, key.i) + 1), acc)
    ELSE PFail

MemberParsed(s, name, r, acc) ==
    IF ~r.ok THEN PFail
    ELSE MembersNext(s, SkipJsonWs(s, r.i), Append(acc, Member(name, r.v)))

MembersNext(s, j, acc) ==
    IF Ch(s, j) = "," THEN ParseMembers(s, j + 1, acc)
    ELSE IF Ch(s, j) = "}" THEN POk(Obj(acc), j + 1)
    ELSE PFail

\* nothing but white space may follow the value
WholeText(s, r) == IF r.ok /\ SkipJsonWs(s, r.i) = Len(s) + 1 THEN r ELSE PFail

\* JSON.parse(text): ok = FALSE when it throws a SyntaxError
JsonParse(s) == WholeText(s, ParseValue(s, 1))

(***************************************************************************)
(* parseAIResponse (lines 94-165; the copy at 431-494 is the same code)     *)
(***************************************************************************)
Thrown(msg) == [ok |-> FALSE, list |-> <<>>, error |-> msg]

Returned(list) == [ok |-> TRUE, list |-> list, error |-> ""]

\* the predicate of parsed.filter (lines 143-150)
IsValidOptimization(opt) ==
    /\ Truthy(Get(opt, "type"))
    /\ Truthy(Get(opt, "description"))
    /\ Get(opt, "impact").k = "number"
    /\ Get(opt, "actions").k = "array"
    /\ Get(opt, "requiresPermission").k = "boolean"
    /\ Get(opt, "isAutomated").k = "boolean"

RECURSIVE FilterValid(_)
FilterValid(list) ==
    IF list = <<>> THEN <<>>
    ELSE IF IsValidOptimization(Head(list)) THEN <<Head(list)>> \o FilterValid(Tail(list))
    ELSE FilterValid(Tail(list))

\* lines 152-156
NonEmpty(validOptimizations) ==
    IF validOptimizations = <<>> THEN Thrown("No valid optimizations found in response")
    ELSE Returned(validOptimizations)

\* lines 142-150, on the outcome of the parse; reading a property of a null
\* element throws a TypeError
Validate(parsed) ==
    IF ~parsed.ok THEN Thrown("Unexpected token in JSON")
    ELSE IF \E i \in 1..Len(parsed.v.a) : parsed.v.a[i].k = "null"
         THEN Thrown("Cannot read properties of null (reading 'type')")
    ELSE NonEmpty(FilterValid(parsed.v.a))

\* lines 121-140: after the direct parse has thrown, the repair and the
\* second parse (whose SyntaxError is not caught here)
SecondParse(jsonContent) == JsonParse(RepairJson(jsonContent))

\* lines 113-120 on the outcome `direct` of JSON.parse(jsonContent): an
\* array is taken as it is, a single object is wrapped
FirstParse(jsonContent, direct) ==
    IF direct.ok
    THEN IF StartsWith(jsonContent, "[") THEN direct ELSE POk(Arr(<<direct.v>>), 0)
    ELSE SecondParse(jsonContent)

\* lines 112-140: the value is the array `parsed`
ParseOrRepair(jsonContent) == FirstParse(jsonContent, JsonParse(jsonContent))

\* lines 100-156 on the outcome of the match
ParseMatched(m) ==
    IF ~m.found THEN Thrown("No JSON content found in response")
    ELSE Validate(ParseOrRepair(CleanJson(m.text)))

\* the inner try block (lines 95-156): what it returns or the message of
\* the Error it throws
ParseBody(content) == ParseMatched(MatchJson(content))

\* a catch block that rethrows the error it caught
RethrowUnwrapped(r) == r

\* the catch block (lines 157-164) rethrows with the prefix
Rewrap(r) == IF r.ok THEN r ELSE Thrown("Failed to parse AI response: " \o r.error)

parseAIResponse(content) == Rewrap(ParseBody(content))

(***************************************************************************)
(* Recommendations and results                                             *)
(***************************************************************************)
RECURSIVE StrArray(_)
StrArray(strings) ==
    IF strings = <<>> THEN <<>> ELSE <<Str(Head(strings))>> \o StrArray(Tail(strings))

\* an object literal of the SystemAnalysis shape (lines 34-42)
SystemAnalysis(type, description, impact, priority, actions, requiresPermission, isAutomated) ==
    Obj(<<Member("type", Str(type)),
          Member("description", Str(description)),
          Member("impact", Num(impact)),
          Member("priority", Str(priority)),
          Member("actions", Arr(StrArray(actions))),
          Member("requiresPermission", Bool(requiresPermission)),
          Member("isAutomated", Bool(isAutomated))>>)

\* an object literal of the AdvancedOptimizationResult shape (lines 48-61)
AdvancedOptimizationResult(success, message, timestamp, optimizations, totalImpact, highPriorityCount, automatedActionsCount, gains) ==
    [success |-> success,
     message |-> message,
     timestamp |-> timestamp,
     optimizations |-> optimizations,
     summary |-> [totalImpact |-> totalImpact,
                  highPriorityCount |-> highPriorityCount,
                  automatedActionsCount |-> automatedActionsCount,
                  memoryGain |-> gains.memoryGain,
                  batteryGain |-> gains.batteryGain,
                  storageGain |-> gains.storageGain]]

Gains(memoryGain, batteryGain, storageGain) ==
    [memoryGain |-> memoryGain, batteryGain |-> batteryGain, storageGain |-> storageGain]

\* new Date().toISOString() at `now` milliseconds after the call
Timestamp(now) == "T+" \o ToString(now) \o "ms"

\* Math.round(a / b) for b > 0: the nearest integer, halves towards +infinity
RoundDiv(a, b) == (2 * a + b) \div (2 * b)

RECURSIVE SumOf(_)
SumOf(numbers) == IF numbers = <<>> THEN 0 ELSE Head(numbers) + SumOf(Tail(numbers))

(***************************************************************************)
(* calculateGains (lines 170-201; the copy at 499-530 is the same code)     *)
(***************************************************************************)
\* ten times what one recommendation adds to a bucket (lines 181-192):
\* the first keyword found in the lower-cased type takes the whole impact,
\* a type with none of them is spread 0.5 / 0.3 / 0.2
BucketShare10(opt, bucket) ==
    LET type == ToLowerCase(Get(opt, "type").s)
        impact == Get(opt, "impact").n
        first == IF Includes(type, "memory") THEN "memory"
                 ELSE IF Includes(type, "battery") THEN "battery"
                 ELSE IF Includes(type, "storage") THEN "storage"
                 ELSE "generic"
    IN  IF first = "generic"
        THEN CASE bucket = "memory" -> 5 * impact
               [] bucket = "battery" -> 3 * impact
               [] bucket = "storage" -> 2 * impact
        ELSE IF first = bucket THEN 10 * impact ELSE 0

BucketSum10(optimizations, bucket) ==
    SumOf([i \in 1..Len(optimizations) |-> BucketShare10(optimizations[i], bucket)])

\* ok = FALSE when opt.type.toLowerCase() throws a TypeError (type is no string)
calculateGains(optimizations) ==
    IF \E i \in 1..Len(optimizations) : Get(optimizations[i], "type").k # "string"
    THEN [ok |-> FALSE, gains |-> Gains("", "", "")]
    ELSE [ok |-> TRUE,
          gains |-> Gains(
              ToString(RoundDiv(3 * BucketSum10(optimizations, "memory"), 10)) \o "MB",
              ToString(RoundDiv(BucketSum10(optimizations, "battery"), 40)) \o "%",
              ToString(RoundDiv(10 * BucketSum10(optimizations, "storage"), 10)) \o "MB")]

(***************************************************************************)
(* The results of getAdvancedAIOptimizations and getMockAIOptimizations    *)
(***************************************************************************)
\* a thrown or rejected value: an Error with a message, or something else
ErrorValue(message) == [isError |-> TRUE, message |-> message]

NonErrorValue == [isError |-> FALSE, message |-> "[object Object]"]

\* error instanceof Error ? error.message : String(error)
MessageOf(error) == error.message

\* the rethrow idiom of lines 225-229 and 290-294
Rethrow(prefix, error) ==
    ErrorValue(prefix \o (IF error.isError THEN error.message ELSE "Unknown error"))

\* debug version, the catch block (lines 331-358)
ErrorRecoveryResult(error, now) ==
    AdvancedOptimizationResult(FALSE,
        "AI response not available: " \o MessageOf(error),
        Timestamp(now),
        <<SystemAnalysis("Error Recovery", "An error occurred: " \o MessageOf(error), 5,
                         "medium", <<"Try again later", "Check internet connection">>,
                         FALSE, FALSE)>>,
        5, 0, 0, Gains("0MB", "0%", "0MB"))

\* debug version, the Expo Snack branch (lines 301-326)
SnackMockResult(now) ==
    AdvancedOptimizationResult(TRUE,
        "Mock AI optimization (Expo Snack compatibility)",
        Timestamp(now),
        <<SystemAnalysis("Memory Optimization",
                         "This is mock data for Expo Snack environment since API calls may be restricted",
                         25, "high", <<"Close high-memory apps", "Clear app caches">>,
                         FALSE, TRUE)>>,
        25, 1, 1, Gains("120MB", "7%", "250MB"))

\* full version, the catch block (lines 632-658)
BasicFallbackResult(now) ==
    AdvancedOptimizationResult(FALSE,
        "AI response not available right now",
        Timestamp(now),
        <<SystemAnalysis("Basic System Optimization",
                         "General performance optimization based on system analysis",
                         15, "medium", <<"Clear system cache", "Close inactive apps">>,
                         FALSE, TRUE)>>,
        15, 0, 1, Gains("75MB", "5%", "150MB"))

\* a comparison that misses the lower-case label
IsHighPriorityCaseSlip(opt) == Get(opt, "priority") = Str("High")

IsHighPriority(opt) == Get(opt, "priority") = Str("high")

IsAutomated(opt) == Truthy(Get(opt, "isAutomated"))

\* optimizations.filter(opt => opt.priority === "high").length (line 615)
HighPriorityCount(optimizations) ==
    Cardinality({i \in 1..Len(optimizations) : IsHighPriority(optimizations[i])})

\* optimizations.filter(opt => opt.isAutomated).length (line 616)
AutomatedActionsCount(optimizations) ==
    Cardinality({i \in 1..Len(optimizations) : IsAutomated(optimizations[i])})

\* optimizations.reduce((sum, opt) => sum + opt.impact, 0) (line 614)
TotalImpact(optimizations) ==
    SumOf([i \in 1..Len(optimizations) |-> Get(optimizations[i], "impact").n])

\* a summary that stores the memory and storage gains in each other's field
AIOptimizedResultGainsSwapped(optimizations, gains, now) ==
    AdvancedOptimizationResult(TRUE, "AI optimized", Timestamp(now), optimizations,
        TotalImpact(optimizations),
        HighPriorityCount(optimizations),
        AutomatedActionsCount(optimizations),
        Gains(gains.storageGain, gains.batteryGain, gains.memoryGain))

\* full version, lines 619-631: the result built from the parsed list
AIOptimizedResult(optimizations, gains, now) ==
    AdvancedOptimizationResult(TRUE, "AI optimized", Timestamp(now), optimizations,
        TotalImpact(optimizations),
        HighPriorityCount(optimizations),
        AutomatedActionsCount(optimizations),
        gains)

\* what the API call resolves with: { choices: [ { message: { content } } ] }
ChatCompletion(content) ==
    Obj(<<Member("choices",
                 Arr(<<Obj(<<Member("message", Obj(<<Member("content", Str(content))>>))>>)>>))>>)

\* response.choices[0]?.message?.content || "[]" (line 610); ok = FALSE when
\* response.choices is undefined and the index read throws a TypeError
ContentOf(response) ==
    LET choices == Get(response, "choices")
        first == IF choices.k = "array" /\ choices.a # <<>> THEN choices.a[1] ELSE Undef
        content == Get(Get(first, "message"), "content")
    IN  IF choices.k \in {"undefined", "null"} THEN [ok |-> FALSE, text |-> ""]
        ELSE IF content.k = "string" /\ content.s # "" THEN [ok |-> TRUE, text |-> content.s]
        ELSE [ok |-> TRUE, text |-> "[]"]

\* a catch block that builds its result around the list parsed so far
ProcessGainsKeepingList(optimizations, gains, now) ==
    IF ~gains.ok
    THEN AdvancedOptimizationResult(FALSE, "AI response not available right now",
             Timestamp(now), optimizations, 15, 0, 1, Gains("75MB", "5%", "150MB"))
    ELSE AIOptimizedResult(optimizations, gains.gains, now)

\* full version, lines 613-631 under the catch of 632
ProcessGains(optimizations, gains, now) ==
    IF ~gains.ok THEN BasicFallbackResult(now)
    ELSE AIOptimizedResult(optimizations, gains.gains, now)

\* full version, lines 611-631 under the catch of 632
ProcessParsed(parsed, now) ==
    IF ~parsed.ok THEN BasicFallbackResult(now)
    ELSE ProcessGains(parsed.list, calculateGains(parsed.list), now)

\* full version, lines 610-631 under the catch of 632
ProcessContent(content, now) ==
    IF ~content.ok THEN BasicFallbackResult(now)
    ELSE ProcessParsed(parseAIResponse(content.text), now)

\* full version, lines 609-631 under the catch of 632: the value returned
\* once the API call has resolved with `response`
ProcessResponse(response, now) == ProcessContent(ContentOf(response), now)

\* debug version, lines 297-330: the value returned once the race has
\* resolved; outside Expo Snack the function body ends without a return
AfterResponse(snack, now) == IF snack THEN SnackMockResult(now) ELSE Undef

(***************************************************************************)
(* getMockAIOptimizations (MockAIOptimization.ts, lines 14-109)            *)
(***************************************************************************)
MockMemory(m) ==
    IF m.memoryUsage.n > 70
    THEN <<SystemAnalysis("Memory Optimization",
              "Your device is running low on memory. Closing unused apps can improve performance.",
              25, "high",
              <<"Close background apps", "Clear app caches", "Restart memory-intensive applications">>,
              FALSE, TRUE)>>
    ELSE IF m.memoryUsage.n > 50
    THEN <<SystemAnalysis("Memory Management",
              "Memory usage is moderate but can be optimized for better performance.",
              15, "medium", <<"Close unused apps", "Clear temporary files">>, FALSE, TRUE)>>
    ELSE <<>>

MockBattery(m) ==
    IF m.batteryLevel.n < 30
    THEN <<SystemAnalysis("Battery Conservation",
              "Battery level is low. Implementing power saving measures is recommended.",
              20, "high",
              <<"Enable battery saving mode", "Reduce screen brightness", "Close power-intensive applications">>,
              TRUE, FALSE)>>
    ELSE <<>>

MockStorage(m) ==
    IF m.storageUsed.n > 85
    THEN <<SystemAnalysis("Storage Cleanup",
              "Your device storage is nearly full which may affect performance.",
              18, "medium",
              <<"Remove unused applications", "Clear app caches", "Delete temporary files">>,
              TRUE, FALSE)>>
    ELSE <<>>

MockGeneral ==
    <<SystemAnalysis("General Optimization",
          "Regular maintenance helps keep your device running smoothly.",
          10, "low", <<"Update system software", "Restart device weekly">>, FALSE, TRUE)>>

\* the running totals of lines 20-21, 34-35, 46, 60-61, 75, 88
MockTotalImpact(m) ==
    (IF m.memoryUsage.n > 70 THEN 25 ELSE IF m.memoryUsage.n > 50 THEN 15 ELSE 0)
      + (IF m.batteryLevel.n < 30 THEN 20 ELSE 0)
      + (IF m.storageUsed.n > 85 THEN 18 ELSE 0)
      + 10

MockHighPriorityCount(m) ==
    (IF m.memoryUsage.n > 70 THEN 1 ELSE 0) + (IF m.batteryLevel.n < 30 THEN 1 ELSE 0)

Min(a, b) == IF a <= b THEN a ELSE b

\* lines 91-93, on integer percentages
MockGains(m) ==
    Gains(ToString((m.memoryUsage.n * 300) \div 100) \o "MB",
          ToString((150 - m.batteryLevel.n) \div 10) \o "%",
          ToString((m.storageUsed.n * 1536) \div 100) \o "MB")

getMockAIOptimizations(m, now) ==
    LET recommendations == MockMemory(m) \o MockBattery(m) \o MockStorage(m) \o MockGeneral
    IN  AdvancedOptimizationResult(TRUE,
            "AI optimization completed (using mock data for compatibility)",
            Timestamp(now),
            recommendations,
            Min(MockTotalImpact(m), 100),
            MockHighPriorityCount(m),
            AutomatedActionsCount(recommendations),
            MockGains(m))

(***************************************************************************)
(* getInstalledApps (src/unnamed/part_000, lines 129-191)                  *)
(***************************************************************************)
\* batteryDrain is kept in tenths of a percent per hour (2.5 is 25)
AppInfo(name, packageName, memoryUsage, batteryDrain, backgroundTime) ==
    [name |-> name, packageName |-> packageName, memoryUsage |-> memoryUsage,
     batteryDrain |-> batteryDrain, backgroundTime |-> backgroundTime]

simulatedApps ==
    <<AppInfo("Social Media App", "com.example.social", 245, 25, 120),
      AppInfo("Maps Navigation", "com.example.maps", 180, 42, 30),
      AppInfo("Email Client", "com.example.mail", 120, 8, 240),
      AppInfo("Weather App", "com.example.weather", 75, 3, 15),
      AppInfo("Game App", "com.example.game", 320, 51, 60)>>

\* the platform application registry as read at lines 172-179: os is
\* Platform.OS; nameThrows / idThrows: reading Application.applicationName /
\* Application.applicationId throws; name and id are the values read ("" for null)
Registry(os, nameThrows, name, idThrows, id) ==
    [os |-> os, nameThrows |-> nameThrows, name |-> name, idThrows |-> idThrows, id |-> id]

\* the registry read on every platform
getInstalledAppsAnyPlatform(registry) ==
    LET nameRead == ~registry.nameThrows
        idRead == nameRead /\ ~registry.idThrows
        appName == IF nameRead /\ registry.name # "" THEN registry.name ELSE "BoostIQ Pro"
        packageName == IF idRead /\ registry.id # "" THEN registry.id ELSE "com.boostiq.pro"
    IN  simulatedApps \o <<AppInfo(appName, packageName, 85, 7, 0)>>

getInstalledApps(registry) ==
    LET android == registry.os = "android"
        nameRead == android /\ ~registry.nameThrows
        \* the second read is reached only when the first did not throw
        idRead == nameRead /\ ~registry.idThrows
        appName == IF nameRead /\ registry.name # "" THEN registry.name ELSE "BoostIQ Pro"
        packageName == IF idRead /\ registry.id # "" THEN registry.id ELSE "com.boostiq.pro"
    IN  simulatedApps \o <<AppInfo(appName, packageName, 85, 7, 0)>>

(***************************************************************************)
(* Inputs of one optimization cycle                                        *)
(***************************************************************************)
DeviceMetrics(cpuUsage, memoryUsage, batteryLevel, batteryState, storageUsed, totalStorage, deviceName, osVersion, installedApps) ==
    [cpuUsage |-> cpuUsage, memoryUsage |-> memoryUsage, batteryLevel |-> batteryLevel,
     batteryState |-> batteryState, storageUsed |-> storageUsed,
     totalStorage |-> totalStorage, deviceName |-> deviceName, osVersion |-> osVersion,
     installedApps |-> installedApps]

\* a byte count gib * 2^30 + b with b < 2^30 (byte counts exceed the
\* integers of the model checker)
Bytes(gib, b) == [gib |-> gib, b |-> b]

\* snapshots handed to the optimization step; the thresholds of the mock
\* service (memory 50 and 70, battery 30, storage 85) are straddled
SampleMetrics ==
    {DeviceMetrics(Num(30), Num(mem), Num(bat), "unplugged", Num(sto), Bytes(64, 0),
                   "Pixel 7", "14",
                   getInstalledApps(Registry("android", FALSE, "BoostIQ", FALSE, "com.boostiq")))
        : mem \in {45, 60, 85}, bat \in {15, 75}, sto \in {50, 90}}

\* the text of one recommendation object in an LLM reply
ReplyObject(typeJson, impactJson, priority, automatedJson) ==
    "{\"type\":" \o typeJson \o ",\"description\":\"d\",\"impact\":" \o impactJson
      \o ",\"priority\":\"" \o priority \o "\",\"actions\":[\"a\"],"
      \o "\"requiresPermission\":false,\"isAutomated\":" \o automatedJson \o "}"

\* the reply of the scenario of the specification (section 8)
ScenarioReply ==
    "[{\"type\":\"Memory Optimization\",\"description\":\"d\",\"impact\":25,\"priority\":\"high\",\"actions\":[\"a\"],\"requiresPermission\":false,\"isAutomated\":true}]"

MemObject == ReplyObject("\"Memory Boost\"", "25", "high", "true")

BatObject == ReplyObject("\"Battery Saver\"", "60", "medium", "false")

StoObject == ReplyObject("\"Storage Cleanup\"", "60", "high", "true")

GenObject == ReplyObject("\"Tune-up\"", "10", "urgent", "true")

\* invalid records: empty type, impact given as a string
EmptyTypeObject == ReplyObject("\"\"", "25", "high", "true")

StringImpactObject == ReplyObject("\"Memory Boost\"", "\"25\"", "low", "false")

\* passes the validity filter (a non-zero number is truthy) but is no string
NumericTypeObject == ReplyObject("7", "25", "high", "true")

Replies ==
    {ScenarioReply,
     "[" \o BatObject \o "," \o StoObject \o "]",
     "Here is my analysis:\n[\n  " \o EmptyTypeObject \o ",\n  " \o GenObject \o "\n]\nHope it helps.",
     MemObject,
     "[" \o MemObject \o " " \o BatObject \o "]",
     "[" \o MemObject \o ", ]",
     "[" \o EmptyTypeObject \o "," \o StringImpactObject \o "]",
     "[" \o NumericTypeObject \o "]",
     "[" \o MemObject \o ", oops]",
     "I am sorry, I cannot analyze this device.",
     ""}

\* what the API call can resolve with: a completion carrying a reply, a
\* completion without choices, an object without the choices field
Responses ==
    {ChatCompletion(text) : text \in Replies}
       \cup {Obj(<<Member("choices", Arr(<<>>))>>), Obj(<<>>)}

\* what a failing step can throw or reject with
Errors == {ErrorValue("Network request failed"), NonErrorValue}

NoError == [isError |-> FALSE, message |-> ""]

\* the payload of the prompt (lines 234-252 / 545-566)
SystemState(m) ==
    [device |-> [cpu |-> m.cpuUsage, ram |-> m.memoryUsage, battery |-> m.batteryLevel,
                 batteryState |-> m.batteryState, storage |-> m.storageUsed,
                 totalStorage |-> m.totalStorage, deviceName |-> m.deviceName,
                 osVersion |-> m.osVersion],
     apps |-> m.installedApps]

(***************************************************************************)
(* collectDeviceMetrics (src/unnamed/part_000, lines 30-122)               *)
(***************************************************************************)
\* the numbers that are no integers
NaN == JSVal("number", 0, "NaN", FALSE, <<>>)

NegInfinity == JSVal("number", 0, "-Infinity", FALSE, <<>>)

\* one reading of a platform provider: it throws (or rejects), or yields
\* `value` ("" stands for null)
Reading(throws, value) == [throws |-> throws, value |-> value]

\* the platform as collectDeviceMetrics meets it.
\*   batteryEnum: Battery.BatteryState is defined (line 49 reads a member of it)
\*   batteryLevel: in thousandths (0.755 is 755)
\*   free, total: in whole GiB
Platform(modelName, osVersion, osName, batteryEnum, batteryLevel, batteryState, free, total, registry) ==
    [modelName |-> modelName, osVersion |-> osVersion, osName |-> osName,
     batteryEnum |-> batteryEnum, batteryLevel |-> batteryLevel,
     batteryState |-> batteryState, free |-> free, total |-> total,
     registry |-> registry]

\* the read without the `|| 'Unknown Device'` default
DeviceNameUnguarded(p) == IF p.modelName.throws THEN "Unknown Device" ELSE p.modelName.value

\* lines 33-40
DeviceNameOf(p) ==
    IF p.modelName.throws \/ p.modelName.value = "" THEN "Unknown Device"
    ELSE p.modelName.value

\* an osVersion that falls back to the initial value when the provider
\* yields nothing
OsVersionInitialWhenEmpty(p) ==
    IF p.osVersion.throws \/ p.osVersion.value = "" THEN "Unknown OS"
    ELSE p.osVersion.value

\* lines 34, 42-46: null + ' (version unknown)' is "null (version unknown)"
OsVersionOf(p) ==
    IF p.osVersion.throws THEN "Unknown OS"
    ELSE IF p.osVersion.value # "" THEN p.osVersion.value
    ELSE (IF p.osName = "" THEN "null" ELSE p.osName) \o " (version unknown)"

\* lines 48-58: the two reads share one try block
BatteryFailed(p) == p.batteryLevel.throws \/ p.batteryState.throws

\* a catch block without the assignment of line 57
BatteryLevelNoDefault(p) == IF BatteryFailed(p) THEN 0 ELSE p.batteryLevel.value

\* batteryLevel after line 58, in thousandths
BatteryLevelOf(p) == IF BatteryFailed(p) THEN 750 ELSE p.batteryLevel.value

\* lines 60-71
BatteryStateStringOf(p) ==
    IF BatteryFailed(p) THEN "unknown"
    ELSE CASE p.batteryState.value = "CHARGING" -> "charging"
           [] p.batteryState.value = "FULL" -> "full"
           [] p.batteryState.value = "UNPLUGGED" -> "unplugged"
           [] OTHER -> "unknown"

\* totalStorage after line 86: assigned only when both reads succeeded
TotalStorageOf(p) ==
    IF p.free.throws \/ p.total.throws THEN Bytes(0, 1) ELSE Bytes(p.total.value, 0)

\* Math.round(storagePercentUsed) (lines 73-86, 100): a division by zero
\* yields NaN (0 / 0) or -Infinity ((0 - free) / 0)
StorageUsedOf(p) ==
    IF p.free.throws \/ p.total.throws THEN Num(50)
    ELSE IF p.total.value = 0
         THEN (IF p.free.value = 0 THEN NaN ELSE NegInfinity)
    ELSE Num(RoundDiv(100 * (p.total.value - p.free.value), p.total.value))

\* a capacity of 128 * 1024 * 1024 bytes
FallbackMetricsMegabytes(p) ==
    DeviceMetrics(Num(30), Num(45), Num(75), "unknown", Num(50), Bytes(0, 134217728),
                  "Android Device", "Android", getInstalledApps(p.registry))

\* the catch block of lines 106-121
FallbackMetrics(p) ==
    DeviceMetrics(Num(30), Num(45), Num(75), "unknown", Num(50), Bytes(128, 0),
                  "Android Device", "Android", getInstalledApps(p.registry))

\* cpuUsage and memoryUsage are the random draws of lines 89-90
collectDeviceMetrics(p, cpuUsage, memoryUsage) ==
    IF ~p.batteryEnum THEN FallbackMetrics(p)
    ELSE DeviceMetrics(Num(cpuUsage), Num(memoryUsage),
                       Num(RoundDiv(BatteryLevelOf(p), 10)),
                       BatteryStateStringOf(p),
                       StorageUsedOf(p),
                       TotalStorageOf(p),
                       DeviceNameOf(p),
                       OsVersionOf(p),
                       getInstalledApps(p.registry))

\* the platforms the collection is followed on: every reading fails or
\* yields one of a few values
ModelNames == {Reading(TRUE, ""), Reading(FALSE, ""), Reading(FALSE, "Pixel 7")}

OsVersions == {Reading(TRUE, ""), Reading(FALSE, ""), Reading(FALSE, "14")}

BatteryLevels == {Reading(TRUE, 0), Reading(FALSE, 155), Reading(FALSE, 1000), Reading(FALSE, 1500)}

BatteryStates == {Reading(TRUE, ""), Reading(FALSE, "UNKNOWN"), Reading(FALSE, "CHARGING"),
                  Reading(FALSE, "FULL"), Reading(FALSE, "UNPLUGGED")}

FreeSpaces == {Reading(TRUE, 0), Reading(FALSE, 0), Reading(FALSE, 24), Reading(FALSE, 96)}

Capacities == {Reading(TRUE, 0), Reading(FALSE, 0), Reading(FALSE, 64)}

Registries ==
    {Registry("android", TRUE, "", FALSE, ""),
     Registry("android", TRUE, "", FALSE, "com.boostiq"),
     Registry("android", FALSE, "BoostIQ", TRUE, ""),
     Registry("android", FALSE, "", FALSE, ""),
     Registry("android", FALSE, "BoostIQ", FALSE, "com.boostiq"),
     Registry("ios", FALSE, "BoostIQ", FALSE, "com.boostiq")}

\* Device.osName: a name, or null (written "")
OsNames == {"Android", ""}

Platforms ==
    {Platform(modelName, osVersion, osName, batteryEnum, batteryLevel, batteryState,
              free, total, registry) :
        modelName \in ModelNames, osVersion \in OsVersions, osName \in OsNames,
        batteryEnum \in BOOLEAN,
        batteryLevel \in BatteryLevels, batteryState \in BatteryStates,
        free \in FreeSpaces, total \in Capacities, registry \in Registries}

\* the ends of the ranges of the random draws of lines 89-90
CpuDraws == {20, 59}

MemoryDraws == {30, 79}

(***************************************************************************)
(* Texts handed to parseAIResponse (content, line 94)                      *)
(***************************************************************************)
\* one character of a string literal as JSON.stringify writes it
EscapeCh(c) ==
    CASE c = "\"" -> "\\\""
      [] c = "\\" -> "\\\\"
      [] c = "\t" -> "\\t"
      [] c = "\n" -> "\\n"
      [] c = "\r" -> "\\r"
      [] c = "\f" -> "\\f"
      [] OTHER -> c

Quote(str) == "\"" \o Concat([i \in 1..Len(str) |-> EscapeCh(Ch(str, i))]) \o "\""

\* pieces[1] sep pieces[2] sep ... pieces[n]
RECURSIVE Join(_, _)
Join(pieces, sep) ==
    IF pieces = <<>> THEN ""
    ELSE IF Len(pieces) = 1 THEN pieces[1]
    ELSE pieces[1] \o sep \o Join(Tail(pieces), sep)

\* JSON.stringify(v) with separators of one's choice: `sep` between the
\* elements of the outermost array, `last` before its closing bracket,
\* `inner` before the closing brace of each of its elements
RECURSIVE Stringify(_, _, _, _)
Stringify(v, sep, last, inner) ==
    CASE v.k = "string" -> Quote(v.s)
      [] v.k = "number" -> ToString(v.n)
      [] v.k = "boolean" -> (IF v.b THEN "true" ELSE "false")
      [] v.k = "array" ->
            "[" \o Join([i \in 1..Len(v.a) |-> Stringify(v.a[i], ",", "", "")], sep)
                \o last \o "]"
      [] v.k = "object" ->
            "{" \o Join([i \in 1..Len(v.a) |->
                            Quote(v.a[i].key) \o ":" \o Stringify(v.a[i].val, ",", "", "")], ",")
                \o "}"
      [] OTHER -> "null"

\* the text of an array of records: each record by JSON.stringify, then
\* joined by `sep`, with `inner` before each record's closing brace and
\* `last` before the closing bracket
ArrayText(records, sep, last, inner) ==
    "[" \o Join([i \in 1..Len(records) |->
                    LET t == Stringify(records[i], ",", "", "")
                    IN  Slice(t, 1, Len(t) - 1) \o inner \o "}"], sep)
        \o last \o "]"

\* JSON.stringify(records)
JsonStringify(records) == ArrayText(records, ",", "", "")

\* how a text was derived from the well-formed one
Damages == {"dropComma", "trailingCommaArray", "trailingCommaObject"}

DamagedText(records, damage) ==
    CASE damage = "dropComma" -> ArrayText(records, "", "", "")
      [] damage = "trailingCommaArray" -> ArrayText(records, ",", ", ", "")
      [] damage = "trailingCommaObject" -> ArrayText(records, ",", "", ",")

\* valid recommendations: plain, with a run of spaces, with a tab, with
\* brackets and commas, with text the repair expressions match and a type
\* naming two keywords
SampleRecords ==
    {SystemAnalysis("MEMORY Boost", "Close unused apps", 25, "high", <<"a">>, FALSE, TRUE),
     SystemAnalysis("Battery Saver", "Dim  the screen", 20, "medium", <<"a", "b">>, TRUE, FALSE),
     SystemAnalysis("Storage Cleanup", "Clear\tcaches", 18, "medium", <<>>, TRUE, FALSE),
     SystemAnalysis("Tune-up", "Keep [a, b] and {c}", 10, "low", <<"a">>, FALSE, TRUE),
     SystemAnalysis("Battery and Memory Care", "Lists like [1, ] or {x,} stay", 30, "high",
                    <<"a">>, FALSE, FALSE)}

\* the sequences of at most two of them
SampleLists ==
    {<<>>} \cup {<<r>> : r \in SampleRecords}
           \cup {<<r, q>> : r \in SampleRecords, q \in SampleRecords}

\* texts that hold no "[" with a later "]" and no "{" with a later "}"
PlainTexts ==
    {"", "   ", "I am sorry, I cannot analyze this device.", "] then [", "} then {",
     "[ never closed", "{\"type\": \"Memory\"", "only ] and }"}

\* texts of replies: those of the optimization step, a list with a null
\* element, lists with elements that are no objects
SampleTexts ==
    Replies \cup PlainTexts
        \cup {"[" \o MemObject \o ",null]", "[1," \o MemObject \o ",\"x\"]", "[null]", "[]"}

(***************************************************************************)
(* getAIOptimizations (services/AIOptimization.ts, lines 23-128)           *)
(***************************************************************************)
\* an object of the OptimizationResult shape (lines 4-15); the gains and
\* the elements of the two lists are JavaScript values, message is
\* undefined when the literal has none
OptimizationResult(timestamp, memory, battery, storage, actions, recommendations, aiSuccessful, message) ==
    [timestamp |-> timestamp,
     gains |-> [memory |-> memory, battery |-> battery, storage |-> storage],
     actions |-> actions,
     recommendations |-> recommendations,
     aiSuccessful |-> aiSuccessful,
     message |-> message]

\* completion.choices[0]?.message?.content || "{}" (line 75); ok = FALSE
\* when completion.choices is undefined and the index read throws
BasicContentOf(completion) ==
    LET choices == Get(completion, "choices")
        first == IF choices.k = "array" /\ choices.a # <<>> THEN choices.a[1] ELSE Undef
        content == Get(Get(first, "message"), "content")
    IN  IF choices.k \in {"undefined", "null"} THEN [ok |-> FALSE, text |-> ""]
        ELSE IF content.k = "string" /\ content.s # "" THEN [ok |-> TRUE, text |-> content.s]
        ELSE [ok |-> TRUE, text |-> "{}"]

\* value || fallback
OrElse(value, fallback) == IF Truthy(value) THEN value ELSE fallback

\* Array.isArray(value) ? value : []
ArrayOrEmpty(value) == IF value.k = "array" THEN value.a ELSE <<>>

\* the catch block of lines 106-127
UnavailableResult(now) ==
    OptimizationResult(Timestamp(now), Str("75MB"), Str("4%"), Str("200MB"),
        StrArray(<<"Closed some background apps", "Performed basic optimization">>),
        StrArray(<<"Check for system updates", "Consider device maintenance">>),
        FALSE,
        Str("AI optimization not available right now. Using basic optimization instead."))

\* a validation that asks only for the presence of the three keys
IsCompleteReplyByPresence(aiResponse) ==
    /\ aiResponse.k = "object"
    /\ \A key \in {"gains", "actions", "recommendations"} :
          \E i \in 1..Len(aiResponse.a) : aiResponse.a[i].key = key

\* the negation of the test of line 82 (a property read on null throws
\* into the same catch)
IsCompleteReply(aiResponse) ==
    /\ Truthy(Get(aiResponse, "gains"))
    /\ Truthy(Get(aiResponse, "actions"))
    /\ Truthy(Get(aiResponse, "recommendations"))

\* lines 87-98
AIResult(aiResponse, now) ==
    OptimizationResult(Timestamp(now),
        OrElse(Get(Get(aiResponse, "gains"), "memory"), Str("150MB")),
        OrElse(Get(Get(aiResponse, "gains"), "battery"), Str("10%")),
        OrElse(Get(Get(aiResponse, "gains"), "storage"), Str("500MB")),
        ArrayOrEmpty(Get(aiResponse, "actions")),
        ArrayOrEmpty(Get(aiResponse, "recommendations")),
        TRUE,
        Str("AI optimization successfully applied"))

\* lines 78-105 on the outcome of JSON.parse(content): a SyntaxError and
\* the Error of line 83 are rethrown at line 104 into the catch of 106
BasicProcessParsed(parsed, now) ==
    IF parsed.ok /\ IsCompleteReply(parsed.v) THEN AIResult(parsed.v, now)
    ELSE UnavailableResult(now)

\* lines 74-105 under the catch of 106
BasicProcessContent(content, now) ==
    IF ~content.ok THEN UnavailableResult(now)
    ELSE BasicProcessParsed(JsonParse(content.text), now)

\* the value getAIOptimizations returns once the API call has resolved
\* with `completion`
BasicProcessResponse(completion, now) == BasicProcessContent(BasicContentOf(completion), now)

\* replies to the basic prompt: complete; gains with one key and actions
\* that are no array; a key missing; a key present with the value "";
\* gains present with the value null; no JSON; a JSON null; an array;
\* nothing
BasicReplies ==
    {"{\"gains\":{\"memory\":\"200MB\",\"battery\":\"10%\",\"storage\":\"1GB\"},\"actions\":[\"Close Maps\"],\"recommendations\":[\"Lower brightness\"]}",
     "{\"gains\":{\"memory\":90},\"actions\":\"none\",\"recommendations\":[]}",
     "{\"gains\":{\"memory\":\"200MB\"},\"actions\":[\"Close Maps\"]}",
     "{\"gains\":{\"memory\":\"200MB\"},\"actions\":[\"Close Maps\"],\"recommendations\":\"\"}",
     "{\"gains\":null,\"actions\":[],\"recommendations\":[]}",
     "I am sorry, I cannot analyze this device.",
     "null",
     "[{\"gains\":{},\"actions\":[],\"recommendations\":[]}]",
     ""}

\* what the API call of the basic pipeline can resolve with
BasicResponses ==
    {ChatCompletion(reply) : reply \in BasicReplies}
       \cup {Obj(<<Member("choices", Arr(<<>>))>>), Obj(<<>>)}

(***************************************************************************)
(* One call of getAdvancedAIOptimizations or getMockAIOptimizations        *)
(***************************************************************************)
VARIABLES
    variant,         \* "none", "debug" (lines 206-359), "full" (lines 536-659), "mock"
    pc,              \* "idle", "awaitGateway", "done"
    settled,         \* the returned promise: "pending", "resolved", "rejected"
    result,          \* the value it resolved with
    deviceMetrics,   \* the argument of the call
    inSnack,         \* window.location.hostname includes 'snack.expo.dev'
    apiPromise,      \* "none", "pending", "fulfilled", "rejected"
    timeoutPromise,  \* "none", "pending", "rejected"
    unhandled,       \* a promise was rejected with no handler attached
    gateway,         \* how the awaited gateway step ended for the cycle:
                     \* "none", "pending", "resolved", "rejected", "timeout"
    response,        \* <<value>> once the API call has resolved
    requests,        \* the payloads sent to the LLM
    parserRuns,      \* the number of calls of parseAIResponse
    elapsed,         \* milliseconds since the call
    platform,        \* the providers collectDeviceMetrics reads
    collection,      \* the promise of collectDeviceMetrics: "none", "resolved", "rejected"
    snapshot,        \* the value it resolved with
    records,         \* the recommendations a text was written from
    origin,          \* how the text was made: "none", "stringify", "written", a damage
    text,            \* the content handed to parseAIResponse
    stage,           \* "start", "text", "parsed", "estimated"
    outcome,         \* what parseAIResponse returned or threw
    estimate,        \* what calculateGains returned or threw
    screen,          \* the screen that is mounted ("none": the services alone)
    optimizing,      \* the flag that disables the start button
    aiEnabled,       \* the "Enable AI optimization" switch
    shownMetrics,    \* the deviceMetrics state of the screen
    optResult,       \* the optResult / optimizationResult state of the screen
    banner,          \* the statusBanner / banner state of the screen
    phase,           \* where startOptimization stands: "idle", "collecting",
                     \* "awaitAI", "awaitPost"
    closure,         \* the state values startOptimization was created with
    aiArgs,          \* the arguments of the AI step of the cycle
    cycle,           \* the number of cycles started
    timers,          \* the cycles whose 2-second timer is pending
    writer,          \* the cycle whose code set optResult last
    browserEnv       \* typeof window !== 'undefined'

cycleVars ==
    <<variant, pc, settled, result, deviceMetrics, inSnack, apiPromise, timeoutPromise,
      unhandled, gateway, response, requests, parserRuns, elapsed>>

collectVars == <<platform, collection, snapshot>>

parseVars == <<records, origin, text, stage, outcome, estimate>>

screenVars ==
    <<screen, optimizing, aiEnabled, shownMetrics, optResult, banner, phase, closure,
      aiArgs, cycle, timers, writer, browserEnv>>

\* the delay of the timer raced against the API call (line 264)
TimeoutMs == 15000

\* the granularity of the clock and the time the model follows a call for
TickMs == 5000

MaxElapsedMs == 20000

NoMetrics == DeviceMetrics(Num(0), Num(0), Num(0), "", Num(0), Bytes(0, 0), "", "", <<>>)

CycleInit ==
    /\ variant = "none"
    /\ pc = "idle"
    /\ settled = "pending"
    /\ result = Undef
    /\ deviceMetrics = NoMetrics
    /\ inSnack = FALSE
    /\ apiPromise = "none"
    /\ timeoutPromise = "none"
    /\ unhandled = FALSE
    /\ gateway = "none"
    /\ response = <<>>
    /\ requests = <<>>
    /\ parserRuns = 0
    /\ elapsed = 0

\* the async function returns `value`
Return(value) ==
    /\ pc' = "done"
    /\ settled' = "resolved"
    /\ result' = value

\* debug version, lines 209-286, up to the await of the race.
\*   sdk: the require of groq-sdk at line 19 succeeded
\*   ctor: what `new Groq(...)` throws (NoError: nothing)
\*   create: what the call of create() throws synchronously (NoError: it
\*           returns the promise of the API call)
StartDebugCall(m, snack, sdk, ctor, create) ==
    /\ pc = "idle"
    /\ variant' = "debug"
    /\ deviceMetrics' = m
    /\ inSnack' = snack
    /\ UNCHANGED <<response, parserRuns, elapsed, unhandled>>
    /\ IF ~sdk
       THEN /\ Return(ErrorRecoveryResult(ErrorValue("Groq SDK is not available. This may be due to compatibility issues with the current environment."), elapsed))
            /\ UNCHANGED <<apiPromise, timeoutPromise, gateway, requests>>
       ELSE IF ctor # NoError
       THEN /\ Return(ErrorRecoveryResult(Rethrow("Groq client initialization failed: ", ctor), elapsed))
            /\ UNCHANGED <<apiPromise, timeoutPromise, gateway, requests>>
       ELSE IF create # NoError
       THEN \* the timer of line 263 is already armed when create() throws
            /\ Return(ErrorRecoveryResult(Rethrow("API request failed: ", create), elapsed))
            /\ timeoutPromise' = "pending"
            /\ gateway' = "rejected"
            /\ UNCHANGED <<apiPromise, requests>>
       ELSE /\ timeoutPromise' = "pending"
            /\ apiPromise' = "pending"
            /\ requests' = Append(requests, SystemState(m))
            /\ gateway' = "pending"
            /\ pc' = "awaitGateway"
            /\ UNCHANGED <<settled, result>>

\* full version, lines 539-607, up to the await of the API call
StartFullCall(m, ctor, create) ==
    /\ pc = "idle"
    /\ variant' = "full"
    /\ deviceMetrics' = m
    /\ UNCHANGED <<inSnack, response, parserRuns, elapsed, unhandled, timeoutPromise>>
    /\ IF ctor # NoError
       THEN /\ Return(BasicFallbackResult(elapsed))
            /\ UNCHANGED <<apiPromise, gateway, requests>>
       ELSE IF create # NoError
       THEN /\ Return(BasicFallbackResult(elapsed))
            /\ gateway' = "rejected"
            /\ UNCHANGED <<apiPromise, requests>>
       ELSE /\ apiPromise' = "pending"
            /\ requests' = Append(requests, SystemState(m))
            /\ gateway' = "pending"
            /\ pc' = "awaitGateway"
            /\ UNCHANGED <<settled, result>>

\* a call of the debug version by itself
StartDebug(m, snack, sdk, ctor, create) ==
    /\ StartDebugCall(m, snack, sdk, ctor, create)
    /\ UNCHANGED collectVars
    /\ UNCHANGED parseVars
    /\ UNCHANGED screenVars

\* a call of the full version by itself
StartFull(m, ctor, create) ==
    /\ StartFullCall(m, ctor, create)
    /\ UNCHANGED collectVars
    /\ UNCHANGED parseVars
    /\ UNCHANGED screenVars

\* a resolve handler that delivers its value whether or not the race is over
NetResolveLate(resp) ==
    /\ UNCHANGED collectVars
    /\ UNCHANGED parseVars
    /\ UNCHANGED screenVars
    /\ apiPromise = "pending"
    /\ apiPromise' = "fulfilled"
    /\ response' = <<resp>>
    /\ UNCHANGED <<variant, deviceMetrics, inSnack, timeoutPromise, unhandled, requests, elapsed>>
    /\ gateway' = "resolved"
    /\ IF variant = "debug"
       THEN /\ Return(AfterResponse(inSnack, elapsed))
            /\ UNCHANGED parserRuns
       ELSE /\ Return(ProcessResponse(resp, elapsed))
            /\ parserRuns' = parserRuns + (IF ContentOf(resp).ok THEN 1 ELSE 0)

\* the API call resolves with `resp`. While the cycle awaits it (the race
\* of line 286, or the await of line 571) the function runs on to its
\* return; afterwards the value goes to a promise nobody awaits any more.
NetResolve(resp) ==
    /\ UNCHANGED collectVars
    /\ UNCHANGED parseVars
    /\ UNCHANGED screenVars
    /\ apiPromise = "pending"
    /\ apiPromise' = "fulfilled"
    /\ response' = <<resp>>
    /\ UNCHANGED <<variant, deviceMetrics, inSnack, timeoutPromise, unhandled, requests, elapsed>>
    /\ IF pc = "awaitGateway"
       THEN /\ gateway' = "resolved"
            /\ IF variant = "debug"
               THEN /\ Return(AfterResponse(inSnack, elapsed))
                    /\ UNCHANGED parserRuns
               ELSE /\ Return(ProcessResponse(resp, elapsed))
                    /\ parserRuns' = parserRuns + (IF ContentOf(resp).ok THEN 1 ELSE 0)
       ELSE UNCHANGED <<pc, settled, result, gateway, parserRuns>>

\* a catch that sends the request once more after the first rejection
\* instead of returning the fallback
NetRejectRetry(error) ==
    /\ UNCHANGED collectVars
    /\ UNCHANGED parseVars
    /\ UNCHANGED screenVars
    /\ apiPromise = "pending"
    /\ UNCHANGED <<variant, deviceMetrics, inSnack, timeoutPromise, unhandled,
                   elapsed, response, parserRuns>>
    /\ IF pc = "awaitGateway" /\ Len(requests) < 2
       THEN /\ requests' = Append(requests, SystemState(deviceMetrics))
            /\ UNCHANGED <<apiPromise, pc, settled, result, gateway>>
       ELSE /\ apiPromise' = "rejected"
            /\ UNCHANGED requests
            /\ IF pc = "awaitGateway"
               THEN /\ gateway' = "rejected"
                    /\ IF variant = "debug"
                       THEN Return(ErrorRecoveryResult(Rethrow("API request failed: ", error), elapsed))
                       ELSE Return(BasicFallbackResult(elapsed))
               ELSE UNCHANGED <<pc, settled, result, gateway>>

\* the API call rejects with `error`: lines 288-295 rethrow into the catch
\* of 331 (debug version), the catch of 632 (full version)
NetReject(error) ==
    /\ UNCHANGED collectVars
    /\ UNCHANGED parseVars
    /\ UNCHANGED screenVars
    /\ apiPromise = "pending"
    /\ apiPromise' = "rejected"
    /\ UNCHANGED <<variant, deviceMetrics, inSnack, timeoutPromise, unhandled, requests,
                   elapsed, response, parserRuns>>
    /\ IF pc = "awaitGateway"
       THEN /\ gateway' = "rejected"
            /\ IF variant = "debug"
               THEN Return(ErrorRecoveryResult(Rethrow("API request failed: ", error), elapsed))
               ELSE Return(BasicFallbackResult(elapsed))
       ELSE UNCHANGED <<pc, settled, result, gateway>>

\* the timer of line 264 fires and rejects timeoutPromise. While the race
\* is awaited the rejection wins it; after the race is settled it is
\* absorbed by the race's handler; when create() threw before the race was
\* built nothing handles it.
TimerFire ==
    /\ UNCHANGED collectVars
    /\ UNCHANGED parseVars
    /\ UNCHANGED screenVars
    /\ timeoutPromise = "pending"
    /\ elapsed >= TimeoutMs
    /\ timeoutPromise' = "rejected"
    /\ UNCHANGED <<variant, deviceMetrics, inSnack, apiPromise, requests, elapsed,
                   response, parserRuns>>
    /\ unhandled' = (unhandled \/ apiPromise = "none")
    /\ IF pc = "awaitGateway"
       THEN /\ gateway' = "timeout"
            /\ Return(ErrorRecoveryResult(
                   Rethrow("API request failed: ",
                           ErrorValue("API request timed out after 15 seconds")), elapsed))
       ELSE UNCHANGED <<pc, settled, result, gateway>>

\* time passes; a due timer fires before time passes further (the event
\* loop is idle while the function awaits)
Tick ==
    LET limit == IF timeoutPromise = "pending" THEN TimeoutMs ELSE MaxElapsedMs
    IN  /\ variant \in {"debug", "full"}
        /\ elapsed < limit
        /\ elapsed' = Min(elapsed + TickMs, limit)
        /\ UNCHANGED <<variant, pc, settled, result, deviceMetrics, inSnack, apiPromise,
                       timeoutPromise, unhandled, gateway, response, requests, parserRuns>>
        /\ UNCHANGED collectVars
        /\ UNCHANGED parseVars
        /\ UNCHANGED screenVars

\* a call of getMockAIOptimizations (synchronous)
CallMock(m) ==
    /\ UNCHANGED collectVars
    /\ UNCHANGED parseVars
    /\ UNCHANGED screenVars
    /\ pc = "idle"
    /\ variant' = "mock"
    /\ deviceMetrics' = m
    /\ Return(getMockAIOptimizations(m, elapsed))
    /\ UNCHANGED <<inSnack, apiPromise, timeoutPromise, unhandled, gateway, response,
                   requests, parserRuns, elapsed>>

\* a device on which every reading succeeds
HealthyPlatform ==
    Platform(Reading(FALSE, "Pixel 7"), Reading(FALSE, "14"), "Android", TRUE,
             Reading(FALSE, 1000), Reading(FALSE, "FULL"), Reading(FALSE, 24),
             Reading(FALSE, 64), Registry("android", FALSE, "BoostIQ", FALSE, "com.boostiq"))

CollectInit ==
    /\ collection = "none"
    /\ snapshot = Undef

\* one call of collectDeviceMetrics, from the call to the settling of its
\* promise: no path of the function leaves it with an exception
Collect(cpuUsage, memoryUsage) ==
    /\ collection = "none"
    /\ collection' = "resolved"
    /\ snapshot' = collectDeviceMetrics(platform, cpuUsage, memoryUsage)
    /\ UNCHANGED platform
    /\ UNCHANGED cycleVars
    /\ UNCHANGED parseVars
    /\ UNCHANGED screenVars

ParseInit ==
    /\ records = <<>>
    /\ origin = "none"
    /\ text = ""
    /\ stage = "start"
    /\ outcome = Thrown("")
    /\ estimate = [ok |-> FALSE, gains |-> Gains("", "", "")]

\* a text is written by JSON.stringify from a list of recommendations
WriteStringified(list) ==
    /\ stage = "start"
    /\ records' = list
    /\ origin' = "stringify"
    /\ text' = JsonStringify(list)
    /\ stage' = "text"
    /\ UNCHANGED <<outcome, estimate>>
    /\ UNCHANGED <<cycleVars, collectVars, screenVars>>

\* a well-formed text loses the comma between two records or gains a
\* trailing comma
Damage(damage) ==
    /\ stage = "text"
    /\ origin = "stringify"
    /\ Len(records) >= (IF damage = "dropComma" THEN 2 ELSE 1)
    /\ origin' = damage
    /\ text' = DamagedText(records, damage)
    /\ UNCHANGED <<records, stage, outcome, estimate>>
    /\ UNCHANGED <<cycleVars, collectVars, screenVars>>

\* a reply arrives as it is
WriteText(reply) ==
    /\ stage = "start"
    /\ origin' = "written"
    /\ text' = reply
    /\ stage' = "text"
    /\ UNCHANGED <<records, outcome, estimate>>
    /\ UNCHANGED <<cycleVars, collectVars, screenVars>>

\* parseAIResponse(text) (line 611)
Parse ==
    /\ stage = "text"
    /\ outcome' = parseAIResponse(text)
    /\ stage' = "parsed"
    /\ UNCHANGED <<records, origin, text, estimate>>
    /\ UNCHANGED <<cycleVars, collectVars, screenVars>>

\* calculateGains(optimizations) on the list returned (line 617)
Estimate ==
    /\ stage = "parsed"
    /\ outcome.ok
    /\ estimate' = calculateGains(outcome.list)
    /\ stage' = "estimated"
    /\ UNCHANGED <<records, origin, text, outcome>>
    /\ UNCHANGED <<cycleVars, collectVars, screenVars>>

(***************************************************************************)
(* One call of getAIOptimizations (services/AIOptimization.ts)             *)
(***************************************************************************)
\* what the prompt of lines 28-55 carries of the metrics
BasicPrompt(m) ==
    [cpuUsage |-> m.cpuUsage, memoryUsage |-> m.memoryUsage, batteryLevel |-> m.batteryLevel,
     storageUsed |-> m.storageUsed, apps |-> m.installedApps]

\* lines 26-72, up to the await of the API call; an exception of the
\* constructor or of create() lands in the catch of line 106
StartBasicCall(m, ctor, create) ==
    /\ pc = "idle"
    /\ variant' = "basic"
    /\ deviceMetrics' = m
    /\ UNCHANGED <<inSnack, response, parserRuns, elapsed, unhandled, timeoutPromise>>
    /\ IF ctor # NoError
       THEN /\ Return(UnavailableResult(elapsed))
            /\ UNCHANGED <<apiPromise, gateway, requests>>
       ELSE IF create # NoError
       THEN /\ Return(UnavailableResult(elapsed))
            /\ gateway' = "rejected"
            /\ UNCHANGED <<apiPromise, requests>>
       ELSE /\ apiPromise' = "pending"
            /\ requests' = Append(requests, BasicPrompt(m))
            /\ gateway' = "pending"
            /\ pc' = "awaitGateway"
            /\ UNCHANGED <<settled, result>>

\* the API call resolves with `completion`: lines 74-105
BasicResolve(completion) ==
    /\ variant = "basic"
    /\ apiPromise = "pending"
    /\ apiPromise' = "fulfilled"
    /\ response' = <<completion>>
    /\ gateway' = "resolved"
    /\ Return(BasicProcessResponse(completion, elapsed))
    /\ UNCHANGED <<variant, deviceMetrics, inSnack, timeoutPromise, unhandled, requests,
                   elapsed, parserRuns>>
    /\ UNCHANGED collectVars
    /\ UNCHANGED parseVars
    /\ UNCHANGED screenVars

\* the API call rejects: the catch of lines 106-127
BasicReject(error) ==
    /\ variant = "basic"
    /\ apiPromise = "pending"
    /\ apiPromise' = "rejected"
    /\ gateway' = "rejected"
    /\ Return(UnavailableResult(elapsed))
    /\ UNCHANGED <<variant, deviceMetrics, inSnack, timeoutPromise, unhandled, requests,
                   elapsed, response, parserRuns>>
    /\ UNCHANGED collectVars
    /\ UNCHANGED parseVars
    /\ UNCHANGED screenVars

(***************************************************************************)
(* The optimize screens: startOptimization and the AI switch               *)
(*   "OptimizeScreen"              screens/OptimizeScreen.tsx              *)
(*   "AdvancedOptimizeScreen"      src/unnamed/part_004                    *)
(*   "AdvancedOptimizeScreenDebug" screens/AdvancedOptimizeScreen.tsx (its *)
(*                                 debug-step list is left out)            *)
(*   "OptimizeScreenDemo"          src/unnamed/part_006                    *)
(***************************************************************************)
\* the cycles a mounted screen is followed for
MaxCycles == 2

Banner(visible, message, type) == [visible |-> visible, message |-> message, type |-> type]

HiddenBanner == Banner(FALSE, "", "success")

\* OptimizeScreen.tsx, lines 55-74: the result made without AI; the draws
\* are the values of Math.floor(Math.random() * n)
LocalResult(memoryDraw, batteryDraw, storageDraw, now) ==
    OptimizationResult(Timestamp(now),
        Str(ToString(memoryDraw + 50) \o "MB"),
        Str(ToString(batteryDraw + 3) \o "%"),
        Str(ToString(storageDraw + 100) \o "MB"),
        StrArray(<<"Closed high memory usage apps", "Cleared system cache",
                   "Optimized background processes">>),
        StrArray(<<"Update your apps regularly", "Remove unused applications",
                   "Restart your device weekly">>),
        FALSE, Undef)

\* part_006, lines 24-41: the result set by the timer
DemoMockResult(now) ==
    [id |-> now,
     timestamp |-> Timestamp(now),
     gains |-> [memory |-> Str("215MB"), battery |-> Str("12%"), storage |-> Str("1.2GB")],
     actions |-> StrArray(<<"Closed 4 background apps", "Cleared app cache",
                            "Optimized system settings">>),
     recommendations |-> StrArray(<<"Update 3 outdated apps",
                                    "Free up storage by removing unused files">>)]

\* a test that takes the AI branch whatever the switch says
AIRequestedAlways(c) == TRUE

\* `if (aiEnabled)` (OptimizeScreen.tsx line 33, part_004 line 33) on the
\* values the running startOptimization was created with
AIRequested(c) == c.aiEnabled

\* `if (aiEnabled && deviceMetrics)` (AdvancedOptimizeScreen.tsx line 52):
\* deviceMetrics is the state as of the render that created the function
AIRequestedWithMetrics(c) == c.aiEnabled /\ c.deviceMetrics # Null

\* the state after useState (lines 11-19 of the screens)
ScreenInit ==
    /\ optimizing = FALSE
    /\ aiEnabled = TRUE
    /\ shownMetrics = Null
    /\ optResult = Null
    /\ banner = HiddenBanner
    /\ phase = "idle"
    /\ closure = [aiEnabled |-> TRUE, deviceMetrics |-> Null]
    /\ aiArgs = <<>>
    /\ cycle = 0
    /\ timers = {}
    /\ writer = 0

\* a new call of the AI service starts from a fresh promise
CycleReset ==
    /\ variant' = "none"
    /\ pc' = "idle"
    /\ settled' = "pending"
    /\ result' = Undef
    /\ deviceMetrics' = NoMetrics
    /\ inSnack' = FALSE
    /\ apiPromise' = "none"
    /\ timeoutPromise' = "none"
    /\ unhandled' = FALSE
    /\ gateway' = "none"
    /\ response' = <<>>
    /\ requests' = <<>>
    /\ parserRuns' = 0
    /\ elapsed' = 0

\* the start button is pressed (it is disabled while optimizing is true):
\* startOptimization up to its first await, of collectDeviceMetrics() or,
\* in part_006, of apiClient.post('/api/optimize')
startOptimization ==
    /\ screen # "none"
    /\ ~optimizing
    /\ cycle < MaxCycles
    /\ optimizing' = TRUE
    /\ optResult' = Null
    /\ banner' = HiddenBanner
    /\ cycle' = cycle + 1
    /\ writer' = cycle + 1
    /\ closure' = [aiEnabled |-> aiEnabled, deviceMetrics |-> shownMetrics]
    /\ aiArgs' = <<>>
    /\ CycleReset
    /\ IF screen = "OptimizeScreenDemo"
       THEN /\ phase' = "awaitPost"
            /\ UNCHANGED collectVars
       ELSE /\ phase' = "collecting"
            /\ collection' = "none"
            /\ snapshot' = Undef
            /\ UNCHANGED platform
    /\ UNCHANGED <<screen, aiEnabled, shownMetrics, timers, browserEnv>>
    /\ UNCHANGED parseVars

\* the switch is moved (part_006 sets the state after its own request to
\* the server has settled, either way)
toggleAI(value) ==
    /\ screen # "none"
    /\ aiEnabled # value
    /\ aiEnabled' = value
    /\ UNCHANGED <<screen, optimizing, shownMetrics, optResult, banner, phase, closure,
                   aiArgs, cycle, timers, writer, browserEnv>>
    /\ UNCHANGED <<cycleVars, collectVars, parseVars>>

\* `const metrics = await collectDeviceMetrics(); setDeviceMetrics(metrics)`
MetricsCollected(cpuUsage, memoryUsage) ==
    /\ phase = "collecting"
    /\ collection' = "resolved"
    /\ snapshot' = collectDeviceMetrics(platform, cpuUsage, memoryUsage)
    /\ shownMetrics' = snapshot'
    /\ UNCHANGED platform

\* the cycle ends: the finally block
Finally ==
    /\ optimizing' = FALSE
    /\ phase' = "idle"

\* OptimizeScreen.tsx, lines 29-80, from the settling of collectDeviceMetrics
\* to the await of getAIOptimizations or to the end of the cycle
OptimizeScreenCollected(cpuUsage, memoryUsage, ctor, create, memoryDraw, batteryDraw, storageDraw) ==
    /\ screen = "OptimizeScreen"
    /\ MetricsCollected(cpuUsage, memoryUsage)
    /\ IF AIRequested(closure)
       THEN /\ StartBasicCall(snapshot', ctor, create)
            /\ aiArgs' = <<snapshot'>>
            /\ phase' = "awaitAI"
            /\ UNCHANGED <<optimizing, optResult, banner>>
       ELSE /\ optResult' = LocalResult(memoryDraw, batteryDraw, storageDraw, elapsed)
            /\ banner' = Banner(TRUE, "Basic optimization applied (AI disabled)", "success")
            /\ Finally
            /\ UNCHANGED <<cycleVars, aiArgs>>
    /\ UNCHANGED <<screen, aiEnabled, closure, cycle, timers, writer, browserEnv>>
    /\ UNCHANGED parseVars

\* the call of getAdvancedAIOptimizations, in either version of the module
StartAdvancedCall(version, m, snack, sdk, ctor, create) ==
    IF version = "debug" THEN StartDebugCall(m, snack, sdk, ctor, create)
    ELSE StartFullCall(m, ctor, create)

\* part_004, lines 28-52, from the settling of collectDeviceMetrics to the
\* await of getAdvancedAIOptimizations(metrics) or to the end of the cycle
AdvancedCollected(cpuUsage, memoryUsage, version, snack, sdk, ctor, create) ==
    /\ screen = "AdvancedOptimizeScreen"
    /\ MetricsCollected(cpuUsage, memoryUsage)
    /\ IF AIRequested(closure)
       THEN /\ StartAdvancedCall(version, snapshot', snack, sdk, ctor, create)
            /\ aiArgs' = <<snapshot'>>
            /\ phase' = "awaitAI"
            /\ UNCHANGED optimizing
       ELSE /\ Finally
            /\ UNCHANGED <<cycleVars, aiArgs>>
    /\ UNCHANGED <<screen, aiEnabled, optResult, banner, closure, cycle, timers, writer,
                   browserEnv>>
    /\ UNCHANGED parseVars

\* AdvancedOptimizeScreen.tsx, lines 41-99, from the settling of
\* collectDeviceMetrics on: the AI step reads the deviceMetrics state the
\* function was created with, not the metrics just collected
DebugCollected(cpuUsage, memoryUsage, version, snack, sdk, ctor, create) ==
    /\ screen = "AdvancedOptimizeScreenDebug"
    /\ MetricsCollected(cpuUsage, memoryUsage)
    /\ IF AIRequestedWithMetrics(closure)
       THEN /\ aiArgs' = <<closure.deviceMetrics>>
            /\ IF browserEnv
               THEN \* lines 61-63 and 71-78: the mock service, synchronously
                    /\ optResult' = getMockAIOptimizations(closure.deviceMetrics, elapsed)
                    /\ banner' = Banner(TRUE, "Optimization completed successfully!", "success")
                    /\ Finally
                    /\ UNCHANGED cycleVars
               ELSE /\ StartAdvancedCall(version, closure.deviceMetrics, snack, sdk, ctor, create)
                    /\ phase' = "awaitAI"
                    /\ UNCHANGED <<optimizing, optResult, banner>>
       ELSE /\ banner' =
                  IF closure.deviceMetrics = Null
                  THEN Banner(TRUE, "Unable to collect device metrics. Cannot proceed with optimization.", "error")
                  ELSE banner
            /\ Finally
            /\ UNCHANGED <<cycleVars, aiArgs, optResult>>
    /\ UNCHANGED <<screen, aiEnabled, closure, cycle, timers, writer, browserEnv>>
    /\ UNCHANGED parseVars

\* the banner shown for a result of the advanced service
AdvancedBanner(value, failure) ==
    IF value.success THEN Banner(TRUE, "AI optimization completed successfully!", "success")
    ELSE Banner(TRUE, failure, "error")

\* the awaited AI call has returned `result`: the rest of startOptimization.
\*   OptimizeScreen.tsx, lines 36-51;
\*   part_004, lines 36-59: on undefined, `result.success` throws into the
\*   catch of line 53;
\*   AdvancedOptimizeScreen.tsx, lines 71-78: `if (result)`
AIReturned ==
    /\ phase = "awaitAI"
    /\ pc = "done"
    /\ IF screen = "OptimizeScreen"
       THEN /\ optResult' = result
            /\ banner' = IF result.aiSuccessful
                         THEN Banner(TRUE, "AI successfully optimized your device!", "success")
                         ELSE Banner(TRUE, "AI optimization not available right now. Using basic optimization.", "warning")
       ELSE IF screen = "AdvancedOptimizeScreen"
       THEN /\ optResult' = result
            /\ banner' = IF result = Undef
                         THEN Banner(TRUE, "Optimization failed. Please try again.", "error")
                         ELSE AdvancedBanner(result, "AI response not available right now.")
       ELSE IF result = Undef
       THEN UNCHANGED <<optResult, banner>>
       ELSE /\ optResult' = result
            /\ banner' = IF result.success
                         THEN Banner(TRUE, "Optimization completed successfully!", "success")
                         ELSE Banner(TRUE, "AI response not available right now.", "error")
    /\ Finally
    /\ UNCHANGED <<screen, aiEnabled, shownMetrics, closure, aiArgs, cycle, timers, writer,
                   browserEnv>>
    /\ UNCHANGED <<cycleVars, collectVars, parseVars>>

\* part_006, lines 17-18 and 43-45: the request to the backend resolved
PostResolved(data) ==
    /\ phase = "awaitPost"
    /\ optResult' = data
    /\ writer' = cycle
    /\ Finally
    /\ UNCHANGED <<screen, aiEnabled, shownMetrics, banner, closure, aiArgs, cycle, timers,
                   browserEnv>>
    /\ UNCHANGED <<cycleVars, collectVars, parseVars>>

\* part_006, lines 19-45: the request failed; the catch arms the 2-second
\* timer and the finally block ends the cycle at once
PostRejected ==
    /\ phase = "awaitPost"
    /\ timers' = timers \cup {cycle}
    /\ Finally
    /\ UNCHANGED <<screen, aiEnabled, shownMetrics, optResult, banner, closure, aiArgs, cycle,
                   writer, browserEnv>>
    /\ UNCHANGED <<cycleVars, collectVars, parseVars>>

\* part_006, lines 23-42: the oldest pending timer fires and sets the mock
\* result, whatever the screen is doing by then
MockResultTimer ==
    /\ timers # {}
    /\ LET c == CHOOSE t \in timers : \A u \in timers : t <= u
       IN  /\ timers' = timers \ {c}
           /\ writer' = c
    /\ optResult' = DemoMockResult(elapsed)
    /\ UNCHANGED <<screen, optimizing, aiEnabled, shownMetrics, banner, phase, closure,
                   aiArgs, cycle, browserEnv>>
    /\ UNCHANGED <<cycleVars, collectVars, parseVars>>

vars == <<cycleVars, collectVars, parseVars, screenVars>>

\* the optimization step
Init ==
    /\ CycleInit
    /\ CollectInit
    /\ ParseInit
    /\ platform = HealthyPlatform
    /\ ScreenInit
    /\ screen = "none"
    /\ browserEnv = FALSE

Next ==
    \/ \E m \in SampleMetrics, snack \in BOOLEAN, sdk \in BOOLEAN,
          ctor \in Errors \cup {NoError}, create \in Errors \cup {NoError} :
          StartDebug(m, snack, sdk, ctor, create)
    \/ \E m \in SampleMetrics, ctor \in Errors \cup {NoError}, create \in Errors \cup {NoError} :
          StartFull(m, ctor, create)
    \/ \E resp \in Responses : NetResolve(resp)
    \/ \E error \in Errors : NetReject(error)
    \/ TimerFire
    \/ Tick
    \/ \E m \in SampleMetrics : CallMock(m)

Spec == Init /\ [][Next]_vars

\* the collection step, on every platform
InitCollect ==
    /\ CycleInit
    /\ CollectInit
    /\ ParseInit
    /\ platform \in Platforms
    /\ ScreenInit
    /\ screen = "none"
    /\ browserEnv = FALSE

NextCollect == \E cpuUsage \in CpuDraws, memoryUsage \in MemoryDraws : Collect(cpuUsage, memoryUsage)

SpecCollect == InitCollect /\ [][NextCollect]_vars

\* the parser and the estimator, on texts of every origin
NextParse ==
    \/ \E list \in SampleLists : WriteStringified(list)
    \/ \E damage \in Damages : Damage(damage)
    \/ \E reply \in SampleTexts : WriteText(reply)
    \/ Parse
    \/ Estimate

SpecParse == Init /\ [][NextParse]_vars

\* the screens: any number of cycles up to MaxCycles, with the switch
\* moved at any moment
Screens ==
    {"OptimizeScreen", "AdvancedOptimizeScreen", "AdvancedOptimizeScreenDebug",
     "OptimizeScreenDemo"}

\* what the AI calls of a screen can resolve with
ScreenResponses ==
    {ChatCompletion(ScenarioReply),
     ChatCompletion("I am sorry, I cannot analyze this device.")}

\* what the backend of part_006 can answer
DemoAnswers == {Obj(<<Member("id", Num(7))>>)}

InitScreen ==
    /\ CycleInit
    /\ CollectInit
    /\ ParseInit
    /\ platform = HealthyPlatform
    /\ ScreenInit
    /\ screen \in Screens
    \* only AdvancedOptimizeScreen.tsx looks at the environment (line 56)
    /\ browserEnv \in (IF screen = "AdvancedOptimizeScreenDebug" THEN BOOLEAN ELSE {FALSE})

\* the steps the screen takes by itself: continuations of settled
\* promises, due timers, the passing of time
ScreenStep ==
    \/ \E cpuUsage \in CpuDraws, memoryUsage \in MemoryDraws,
          ctor \in {NoError, NonErrorValue}, create \in {NoError, NonErrorValue},
          memoryDraw \in {0, 99}, batteryDraw \in {0, 7}, storageDraw \in {0, 499} :
          OptimizeScreenCollected(cpuUsage, memoryUsage, ctor, create,
                                  memoryDraw, batteryDraw, storageDraw)
    \/ \E cpuUsage \in CpuDraws, memoryUsage \in MemoryDraws, version \in {"debug", "full"},
          snack \in BOOLEAN, sdk \in BOOLEAN,
          ctor \in {NoError, NonErrorValue}, create \in {NoError, NonErrorValue} :
          AdvancedCollected(cpuUsage, memoryUsage, version, snack, sdk, ctor, create)
    \/ \E cpuUsage \in CpuDraws, memoryUsage \in MemoryDraws, version \in {"debug", "full"},
          snack \in BOOLEAN, sdk \in BOOLEAN,
          ctor \in {NoError, NonErrorValue}, create \in {NoError, NonErrorValue} :
          DebugCollected(cpuUsage, memoryUsage, version, snack, sdk, ctor, create)
    \/ AIReturned
    \/ MockResultTimer
    \/ phase = "awaitAI" /\ TimerFire
    \/ phase = "awaitAI" /\ Tick

\* the steps of the user and of the network
WorldStep ==
    \/ startOptimization
    \/ \E value \in BOOLEAN : toggleAI(value)
    \/ \E resp \in ScreenResponses : variant \in {"debug", "full"} /\ NetResolve(resp)
    \/ \E error \in Errors : variant \in {"debug", "full"} /\ NetReject(error)
    \/ \E completion \in BasicResponses : BasicResolve(completion)
    \/ \E error \in Errors : BasicReject(error)
    \/ \E data \in DemoAnswers : PostResolved(data)
    \/ PostRejected

NextScreen == ScreenStep \/ WorldStep

SpecScreen == InitScreen /\ [][NextScreen]_vars

\* the screen's own steps are taken when they can be: the event loop runs
\* continuations and due timers. Nothing makes the network answer or the
\* user press.
SpecScreenFair == InitScreen /\ [][NextScreen]_vars /\ WF_vars(ScreenStep)

(***************************************************************************)
(* Properties                                                              *)
(***************************************************************************)
ResultFields == {"success", "message", "timestamp", "optimizations", "summary"}

SummaryFields ==
    {"totalImpact", "highPriorityCount", "automatedActionsCount",
     "memoryGain", "batteryGain", "storageGain"}

\* v is an object with every field of the result shape
IsOptimizationResult(v) ==
    /\ DOMAIN v = ResultFields
    /\ DOMAIN v.summary = SummaryFields

\* a call of getAdvancedAIOptimizations has settled
AdvancedDone == pc = "done" /\ variant \in {"debug", "full"}

\* what parseAIResponse makes of each response the API call can resolve
\* with: hasContent = FALSE when the content cannot be read at all
ParsedReply ==
    [resp \in Responses |->
        IF ContentOf(resp).ok
        THEN [hasContent |-> TRUE, parse |-> parseAIResponse(ContentOf(resp).text)]
        ELSE [hasContent |-> FALSE, parse |-> Thrown("")]]

\* the one synthetic recommendation of the Degraded state of the specification
IsErrorRecoveryOnly(optimizations) ==
    /\ Len(optimizations) = 1
    /\ Get(optimizations[1], "type") = Str("Error Recovery")
    /\ Get(optimizations[1], "impact") = Num(5)
    /\ Get(optimizations[1], "priority") = Str("medium")
    /\ Get(optimizations[1], "isAutomated") = Bool(FALSE)

\* C1: whatever the outcomes of the steps of a cycle, the promise of
\* getAdvancedAIOptimizations is never rejected and resolves to an object
\* with every field of the result shape, never to undefined.
C1_AlwaysCompleteResult ==
    /\ settled # "rejected"
    /\ AdvancedDone => settled = "resolved" /\ IsOptimizationResult(result)

\* C2: when the API call has resolved and the reply parses to at least one
\* valid recommendation, the result has success = true, carries the parsed
\* recommendations in order, and its summary is computed from them (the
\* scenario reply gives highPriorityCount 1, automatedActionsCount 1,
\* totalImpact 25).
C2_SuccessTerminal ==
    (AdvancedDone /\ gateway = "resolved" /\ ParsedReply[response[1]].parse.ok) =>
        /\ IsOptimizationResult(result)
        /\ result.success = TRUE
        /\ result.optimizations = ParsedReply[response[1]].parse.list
        /\ response[1] = ChatCompletion(ScenarioReply) =>
              /\ result.summary.highPriorityCount = 1
              /\ result.summary.automatedActionsCount = 1
              /\ result.summary.totalImpact = 25

\* C3: in every result returned by any path, summary.totalImpact is
\* min(100, sum of the impacts of result.optimizations).
C3_TotalImpactCapped ==
    (pc = "done" /\ IsOptimizationResult(result)) =>
        result.summary.totalImpact = Min(100, TotalImpact(result.optimizations))

\* C4: in every result returned by any path, summary.highPriorityCount is
\* the number of recommendations with priority "high" and
\* summary.automatedActionsCount the number with isAutomated true.
C4_CountsMatch ==
    (pc = "done" /\ IsOptimizationResult(result)) =>
        /\ result.summary.highPriorityCount =
              Cardinality({i \in 1..Len(result.optimizations) :
                              Get(result.optimizations[i], "priority") = Str("high")})
        /\ result.summary.automatedActionsCount =
              Cardinality({i \in 1..Len(result.optimizations) :
                              Get(result.optimizations[i], "isAutomated") = Bool(TRUE)})

\* a parsed list with one high-priority automated recommendation and one
\* that is neither has been summarised
C4_Witness ==
    /\ pc = "done" /\ variant = "full"
    /\ IsOptimizationResult(result)
    /\ result.success
    /\ Len(result.optimizations) = 2
    /\ result.summary.highPriorityCount = 1
    /\ result.summary.automatedActionsCount = 1

\* C5: when the gateway step fails (the timer wins, or the call rejects or
\* throws), the result is the Degraded one: success = false, the single
\* "Error Recovery" recommendation (impact 5, medium, not automated), and
\* a message that reports the failure of the request.
C5_GatewayFailureDegraded ==
    (AdvancedDone /\ gateway \in {"rejected", "timeout"}) =>
        /\ IsOptimizationResult(result)
        /\ result.success = FALSE
        /\ IsErrorRecoveryOnly(result.optimizations)
        /\ Includes(result.message, "API request failed")

\* C6: when the API call has resolved but the reply parses to no valid
\* recommendation, the result is the Degraded one: success = false, the
\* single "Error Recovery" recommendation, and the message of the parse
\* error inside the result's message; nothing is thrown to the caller.
C6_ParseFailureDegraded ==
    (AdvancedDone /\ gateway = "resolved"
       /\ ParsedReply[response[1]].hasContent /\ ~ParsedReply[response[1]].parse.ok) =>
        /\ settled = "resolved"
        /\ IsOptimizationResult(result)
        /\ result.success = FALSE
        /\ IsErrorRecoveryOnly(result.optimizations)
        /\ Includes(result.message, ParsedReply[response[1]].parse.error)

\* C7: a result with success = false holds one synthetic fallback
\* recommendation and none of the recommendations parsed from the reply.
C7_FailureHoldsOnlyFallback ==
    (pc = "done" /\ IsOptimizationResult(result) /\ ~result.success) =>
        /\ Len(result.optimizations) = 1
        /\ Get(result.optimizations[1], "type") \in
              {Str("Error Recovery"), Str("Basic System Optimization")}
        /\ response # <<>> =>
              \A i \in 1..Len(ParsedReply[response[1]].parse.list) :
                  ParsedReply[response[1]].parse.list[i] # result.optimizations[1]

\* the reply was parsed to a valid list and a later step of the same call
\* failed
C7_Witness ==
    /\ pc = "done" /\ variant = "full"
    /\ response # <<>>
    /\ ParsedReply[response[1]].parse.ok
    /\ IsOptimizationResult(result)
    /\ ~result.success

\* C8: in every variant the wait for the API call ends when 15 seconds
\* have passed: the call is never still awaited after that.
C8_WaitBoundedByTimer == pc = "awaitGateway" => elapsed <= TimeoutMs

\* C9: in the race of the timer and the API call (debug version), once the
\* first of the two has settled the outcome stands: later events change
\* neither the result nor the settled promise, a timer win is reported as
\* a timeout and nothing else is, and no rejection goes unhandled.
C9_FirstSettlerDecides ==
    [][(variant = "debug" /\ apiPromise # "none") =>
          /\ pc = "done" =>
                /\ pc' = pc /\ settled' = settled
                /\ result' = result /\ gateway' = gateway
          /\ pc' = "done" =>
                /\ settled' = "resolved"
                /\ IsOptimizationResult(result') =>
                      (gateway' = "timeout" <=> Includes(result'.message, "timed out"))
                /\ gateway' = "timeout" => IsOptimizationResult(result')
          /\ unhandled' = FALSE]_vars

\* the timer won the race and the API call settled afterwards
C9_Witness ==
    /\ variant = "debug" /\ pc = "done"
    /\ gateway = "timeout"
    /\ apiPromise \in {"fulfilled", "rejected"}
    /\ Includes(result.message, "timed out")

\* a snapshot with every field of the DeviceMetrics shape holding a value
\* ("" stands for null)
EveryFieldSet(s) ==
    /\ DOMAIN s = {"cpuUsage", "memoryUsage", "batteryLevel", "batteryState", "storageUsed",
                   "totalStorage", "deviceName", "osVersion", "installedApps"}
    /\ \A f \in {"cpuUsage", "memoryUsage", "batteryLevel", "storageUsed"} : s[f].k = "number"
    /\ \A f \in {"batteryState", "deviceName", "osVersion"} : s[f] # ""
    /\ DOMAIN s.totalStorage = {"gib", "b"}
    /\ s.installedApps # <<>>
    /\ \A i \in 1..Len(s.installedApps) :
          s.installedApps[i].name # "" /\ s.installedApps[i].packageName # ""

\* C10: whichever of the provider readings throw or reject, the promise
\* of collectDeviceMetrics is never rejected and resolves to a snapshot
\* with every field set.
C10_CollectNeverRejects ==
    /\ collection # "rejected"
    /\ collection = "resolved" => EveryFieldSet(snapshot)

\* a collection during which every guarded reading failed
C10_Witness ==
    /\ collection = "resolved"
    /\ platform.batteryEnum
    /\ platform.modelName.throws /\ platform.osVersion.throws
    /\ platform.batteryLevel.throws /\ platform.batteryState.throws
    /\ platform.free.throws /\ platform.total.throws
    /\ platform.registry.nameThrows

\* a number that is finite and lies in [0, 100]
IsPercentage(v) == v.k = "number" /\ v.s = "" /\ v.n >= 0 /\ v.n <= 100

\* C11: whatever the providers return and whichever readings fail, the
\* snapshot has cpuUsage, memoryUsage, batteryLevel and storageUsed within
\* [0, 100] and totalStorage > 0.
C11_PercentagesInRange ==
    collection = "resolved" =>
        /\ \A f \in {"cpuUsage", "memoryUsage", "batteryLevel", "storageUsed"} :
              IsPercentage(snapshot[f])
        /\ snapshot.totalStorage.gib > 0 \/ snapshot.totalStorage.b > 0

\* C12: a field whose own reading succeeded carries the value read,
\* whichever of the other readings failed (a failing battery-state read
\* leaves a battery level that was read unchanged).
C12_ReadingsIndependent ==
    (collection = "resolved" /\ platform.batteryEnum) =>
        /\ (~platform.modelName.throws /\ platform.modelName.value # "") =>
              snapshot.deviceName = platform.modelName.value
        /\ (~platform.osVersion.throws /\ platform.osVersion.value # "") =>
              snapshot.osVersion = platform.osVersion.value
        /\ ~platform.batteryLevel.throws =>
              snapshot.batteryLevel = Num((2 * platform.batteryLevel.value + 10) \div 20)
        /\ (~platform.batteryState.throws /\ platform.batteryState.value # "UNKNOWN") =>
              snapshot.batteryState # "unknown"
        /\ ~platform.total.throws =>
              snapshot.totalStorage = Bytes(platform.total.value, 0)

\* C13: when a guarded reading throws or rejects (and the function runs to
\* its regular return), the field takes its default: deviceName "Unknown
\* Device", osVersion "Unknown OS", batteryLevel 75 with batteryState
\* "unknown", storageUsed 50.
C13_DefaultsOnFailure ==
    (collection = "resolved" /\ platform.batteryEnum) =>
        /\ platform.modelName.throws => snapshot.deviceName = "Unknown Device"
        /\ platform.osVersion.throws => snapshot.osVersion = "Unknown OS"
        /\ (platform.batteryLevel.throws \/ platform.batteryState.throws) =>
              snapshot.batteryLevel = Num(75) /\ snapshot.batteryState = "unknown"
        /\ (platform.free.throws \/ platform.total.throws) => snapshot.storageUsed = Num(50)

\* only the battery-state read failed, after a level of 15.5% was read
C13_Witness ==
    /\ collection = "resolved" /\ platform.batteryEnum
    /\ ~platform.batteryLevel.throws /\ platform.batteryLevel.value = 155
    /\ platform.batteryState.throws
    /\ ~platform.modelName.throws /\ ~platform.free.throws /\ ~platform.total.throws
    /\ snapshot.batteryLevel = Num(75)

\* C14: when the body throws outside the per-field guards the promise
\* still resolves, to the fixed snapshot: cpuUsage 30, memoryUsage 45,
\* batteryLevel 75, storageUsed 50, totalStorage 128 * 1024^3 bytes, and
\* the six-record application inventory.
C14_FallbackSnapshot ==
    /\ collection # "rejected"
    /\ (collection = "resolved" /\ ~platform.batteryEnum) =>
          /\ snapshot.cpuUsage = Num(30)
          /\ snapshot.memoryUsage = Num(45)
          /\ snapshot.batteryLevel = Num(75)
          /\ snapshot.storageUsed = Num(50)
          /\ snapshot.totalStorage = [gib |-> 128, b |-> 0]
          /\ Len(snapshot.installedApps) = 6

\* the enum read of line 49 threw while every guarded reading would have
\* succeeded
C14_Witness ==
    /\ collection = "resolved" /\ ~platform.batteryEnum
    /\ ~platform.modelName.throws /\ ~platform.osVersion.throws
    /\ ~platform.batteryLevel.throws /\ ~platform.batteryState.throws
    /\ ~platform.free.throws /\ ~platform.total.throws

\* the names of the fixed catalog, in its order
CatalogNames ==
    <<"Social Media App", "Maps Navigation", "Email Client", "Weather App", "Game App">>

\* six records: the catalog in its order, then the host application with
\* backgroundTime 0
IsInventory(apps) ==
    /\ Len(apps) = 6
    /\ [i \in 1..5 |-> apps[i].name] = CatalogNames
    /\ apps[6].backgroundTime = 0

\* C15 (as stated): the inventory is the catalog followed by the host
\* record, whose name and packageName are the registry's values whenever
\* the registry provides them and the defaults otherwise.
C15_HostFromRegistry ==
    collection = "resolved" =>
        /\ IsInventory(snapshot.installedApps)
        /\ snapshot.installedApps[6].name =
              IF ~platform.registry.nameThrows /\ platform.registry.name # ""
              THEN platform.registry.name ELSE "BoostIQ Pro"
        /\ snapshot.installedApps[6].packageName =
              IF ~platform.registry.idThrows /\ platform.registry.id # ""
              THEN platform.registry.id ELSE "com.boostiq.pro"

\* C15 (amended): the inventory is the catalog followed by the host
\* record; the registry is read on Android only, and the identifier only
\* after the name was read without throwing. The name is the registry's
\* when that read yields a non-empty value, the packageName is the
\* registry's when both reads succeed and the identifier is non-empty;
\* otherwise they are "BoostIQ Pro" and "com.boostiq.pro".
C15_HostFromAndroidRegistry ==
    collection = "resolved" =>
        /\ IsInventory(snapshot.installedApps)
        /\ snapshot.installedApps[6].name =
              IF platform.registry.os = "android" /\ ~platform.registry.nameThrows
                 /\ platform.registry.name # ""
              THEN platform.registry.name ELSE "BoostIQ Pro"
        /\ snapshot.installedApps[6].packageName =
              IF platform.registry.os = "android" /\ ~platform.registry.nameThrows
                 /\ ~platform.registry.idThrows /\ platform.registry.id # ""
              THEN platform.registry.id ELSE "com.boostiq.pro"

\* on Android the name was read and the read of the identifier threw
C15_Witness ==
    /\ collection = "resolved"
    /\ platform.registry.os = "android"
    /\ ~platform.registry.nameThrows /\ platform.registry.idThrows
    /\ snapshot.installedApps[6].name = "BoostIQ"
    /\ snapshot.installedApps[6].packageName = "com.boostiq.pro"

\* a call of parseAIResponse has ended
Parsed == stage \in {"parsed", "estimated"}

\* C16: parseAIResponse(JSON.stringify(sequence)) returns the sequence,
\* element by element and field by field, for every sequence of valid
\* recommendations (strings with runs of spaces, tabs, brackets, commas
\* included). The sequence is not empty (of an empty list nothing can be
\* returned: C20).
C16_RoundTrip ==
    (Parsed /\ origin = "stringify" /\ records # <<>>) =>
        outcome.ok /\ outcome.list = records

\* C17: the text of a well-formed array of valid recommendations with the
\* comma between two records deleted, or with a trailing comma before the
\* closing bracket or before a closing brace, is parsed successfully to
\* the records the well-formed text is parsed to.
C17_RepairYieldsSameRecords ==
    (Parsed /\ origin \in Damages) =>
        /\ outcome.ok
        /\ outcome.list = parseAIResponse(JsonStringify(records)).list

\* no "[" with a later "]" and no "{" with a later "}"
NoJsonLike(t) ==
    ~\E i \in 1..Len(t), j \in 1..Len(t) :
        /\ i < j
        /\ \/ Ch(t, i) = "[" /\ Ch(t, j) = "]"
           \/ Ch(t, i) = "{" /\ Ch(t, j) = "}"

\* C18: on a text with no substring of the form [...] or {...}
\* parseAIResponse throws an Error whose message starts with "Failed to
\* parse AI response:" and returns no list.
C18_RejectsPlainText ==
    (Parsed /\ NoJsonLike(text)) =>
        /\ ~outcome.ok
        /\ StartsWith(outcome.error, "Failed to parse AI response:")
        /\ outcome.list = <<>>

\* a text with brackets in the wrong order was rejected
C18_Witness ==
    /\ stage = "parsed"
    /\ text = "] then ["
    /\ ~outcome.ok

\* the lower-cased type of a recommendation holds the keyword
Matches(opt, keyword) == Includes(ToLowerCase(Get(opt, "type").s), keyword)

\* ten times the bucket of a keyword: the impact of every recommendation
\* matching the keyword, and `weight` tenths of the impact of every
\* recommendation matching no keyword
Bucket10(list, keyword, weight) ==
    SumOf([i \in 1..Len(list) |->
              IF Matches(list[i], keyword) THEN 10 * Get(list[i], "impact").n
              ELSE IF \E k \in {"memory", "battery", "storage"} : Matches(list[i], k) THEN 0
              ELSE weight * Get(list[i], "impact").n])

\* C19: calculateGains never fails, and memoryGain = round(3 * M) "MB",
\* batteryGain = round(0.25 * B) "%", storageGain = round(10 * S) "MB" for
\* the bucket sums M, B, S.
C19_GainsFormula ==
    stage = "estimated" =>
        /\ estimate.ok
        /\ estimate.gains.memoryGain =
              ToString((6 * Bucket10(outcome.list, "memory", 5) + 10) \div 20) \o "MB"
        /\ estimate.gains.batteryGain =
              ToString((2 * Bucket10(outcome.list, "battery", 3) + 40) \div 80) \o "%"
        /\ estimate.gains.storageGain =
              ToString((20 * Bucket10(outcome.list, "storage", 2) + 10) \div 20) \o "MB"

\* the validity of a record: type and description present and non-empty,
\* impact a number, actions an array, both flags booleans
IsValidRecord(opt) ==
    /\ Get(opt, "type").k \notin {"undefined", "null"} /\ Get(opt, "type") # Str("")
    /\ Get(opt, "description").k \notin {"undefined", "null"}
    /\ Get(opt, "description") # Str("")
    /\ Get(opt, "impact").k = "number"
    /\ Get(opt, "actions").k = "array"
    /\ Get(opt, "requiresPermission").k = "boolean"
    /\ Get(opt, "isAutomated").k = "boolean"

\* C20: parseAIResponse returns the valid ones of the parsed records, in
\* their order and unchanged; when none is valid it throws; a returned
\* list is never empty.
C20_ReturnsValidSubsequence ==
    Parsed =>
        /\ outcome.ok => outcome.list # <<>>
        /\ (MatchJson(text).found /\ ParseOrRepair(CleanJson(MatchJson(text).text)).ok) =>
              IF SelectSeq(ParseOrRepair(CleanJson(MatchJson(text).text)).v.a, IsValidRecord) = <<>>
              THEN ~outcome.ok
              ELSE /\ outcome.ok
                   /\ outcome.list =
                         SelectSeq(ParseOrRepair(CleanJson(MatchJson(text).text)).v.a,
                                   IsValidRecord)

\* the gain calculateGains reported for the bucket of a keyword
GainOf(gains, keyword) ==
    CASE keyword = "memory" -> gains.memoryGain
      [] keyword = "battery" -> gains.batteryGain
      [] keyword = "storage" -> gains.storageGain

\* the gain of a bucket that receives the impact of every recommendation
\* whose type holds its keyword
GainOfEveryMatch(list, keyword) ==
    CASE keyword = "memory" -> ToString((6 * Bucket10(list, "memory", 5) + 10) \div 20) \o "MB"
      [] keyword = "battery" -> ToString((2 * Bucket10(list, "battery", 3) + 40) \div 80) \o "%"
      [] keyword = "storage" -> ToString((20 * Bucket10(list, "storage", 2) + 10) \div 20) \o "MB"

\* C21: a recommendation adds its full impact to the bucket of every
\* keyword its type holds: whenever calculateGains returned, the gain of
\* each keyword held by some type is the one computed from all the
\* recommendations holding that keyword (a type with two keywords feeds both).
C21_EveryMatchingBucket ==
    (stage = "estimated" /\ estimate.ok) =>
        \A i \in 1..Len(outcome.list), keyword \in {"memory", "battery", "storage"} :
            Matches(outcome.list[i], keyword) =>
                GainOf(estimate.gains, keyword) = GainOfEveryMatch(outcome.list, keyword)

\* C22: one call of getAdvancedAIOptimizations is a single pass: at most
\* one request is sent to the LLM; the parser runs at most once, in the
\* step in which the API call resolves and never after a gateway failure;
\* once the call has returned, nothing of it runs again. (Whether the call
\* returns at all when the API call never settles is the subject of C8
\* and C29.)
C22_SinglePass ==
    [][/\ Len(requests') <= 1
       /\ parserRuns' <= 1
       /\ parserRuns' > parserRuns => (apiPromise = "pending" /\ apiPromise' = "fulfilled")
       /\ parserRuns' = 1 => gateway' = "resolved"
       /\ gateway' \in {"rejected", "timeout"} => parserRuns' = 0
       /\ pc = "done" => UNCHANGED <<pc, settled, result, requests, parserRuns, gateway>>]_vars

\* a call of the full version sent one request and parsed the reply once
C22_Witness ==
    /\ variant = "full"
    /\ pc = "done"
    /\ gateway = "resolved"
    /\ Len(requests) = 1
    /\ parserRuns = 1

\* the providers of the device name and of the OS version have been read
\* by a call that ran to its regular return
NamesRead == collection = "resolved" /\ platform.batteryEnum

Priorities == {Str("high"), Str("medium"), Str("low")}

\* C25: every recommendation of a result returned by
\* getAdvancedAIOptimizations or getMockAIOptimizations has priority
\* "high", "medium" or "low", whatever the LLM reply holds.
C25_PriorityEnum ==
    (pc = "done" /\ IsOptimizationResult(result)) =>
        \A i \in 1..Len(result.optimizations) :
            Get(result.optimizations[i], "priority") \in Priorities

\* the three gain fields of the summary of a result
SummaryGains(v) == Gains(v.summary.memoryGain, v.summary.batteryGain, v.summary.storageGain)

\* C27 (as stated): in every result getAdvancedAIOptimizations returns
\* (success, degraded fallback, environment mock) the three gains of the
\* summary are calculateGains of the result's optimizations list.
C27_GainsOfOwnList ==
    (AdvancedDone /\ IsOptimizationResult(result)) =>
        /\ calculateGains(result.optimizations).ok
        /\ SummaryGains(result) = calculateGains(result.optimizations).gains

\* C27 (amended): the gains are calculateGains of the result's list in the
\* results built from a parsed LLM reply; the degraded results and the
\* environment mock carry fixed gains.
C27_GainsOfParsedList ==
    (AdvancedDone /\ IsOptimizationResult(result)) =>
        IF variant = "full" /\ result.success
        THEN /\ calculateGains(result.optimizations).ok
             /\ SummaryGains(result) = calculateGains(result.optimizations).gains
        ELSE IF variant = "full" THEN SummaryGains(result) = Gains("75MB", "5%", "150MB")
        ELSE IF result.success THEN SummaryGains(result) = Gains("120MB", "7%", "250MB")
        ELSE SummaryGains(result) = Gains("0MB", "0%", "0MB")

\* a result built from a reply with a battery and a storage recommendation
C27_Witness ==
    /\ AdvancedDone /\ IsOptimizationResult(result)
    /\ variant = "full" /\ result.success
    /\ Len(result.optimizations) = 2
    /\ SummaryGains(result) = Gains("0MB", "15%", "600MB")

(***************************************************************************)
(* Properties of the optimize screens                                      *)
(***************************************************************************)
\* the screens that collect metrics and have an AI step
CollectingScreens ==
    {"OptimizeScreen", "AdvancedOptimizeScreen", "AdvancedOptimizeScreenDebug"}

\* C23: in every cycle (the first one after mounting included) in which
\* the collection succeeded and AI was enabled when the cycle started, the
\* AI step runs, once, on the snapshot collectDeviceMetrics returned in
\* that cycle: never on the metrics of an earlier cycle, never skipped.
C23_AIStepOnFreshMetrics ==
    (screen \in CollectingScreens /\ cycle > 0 /\ collection = "resolved" /\ closure.aiEnabled) =>
        aiArgs = <<snapshot>>

\* C26: cycles started one after another on a screen do not interfere: the
\* value of the result state was always set by code of the latest cycle
\* started (no deferred step of an earlier cycle writes it once a later
\* cycle has started), so the result shown after a cycle is that cycle's.
C26_NoStaleResult == writer = cycle

\* what JSON.parse makes of the content of each completion (hasContent is
\* FALSE when the read of the content throws)
BasicParsedReply ==
    [completion \in BasicResponses |->
        [hasContent |-> BasicContentOf(completion).ok,
         parse |-> JsonParse(BasicContentOf(completion).text)]]

\* a call of getAIOptimizations has settled
BasicDone == variant = "basic" /\ pc = "done"

\* the LLM call succeeded and JSON.parse accepted the content of its reply
BasicReplyParsed == gateway = "resolved" /\ BasicParsedReply[response[1]].hasContent
                        /\ BasicParsedReply[response[1]].parse.ok

\* the three keys occur in the parsed reply
KeysPresent ==
    /\ BasicParsedReply[response[1]].parse.v.k = "object"
    /\ \A key \in {"gains", "actions", "recommendations"} :
          \E i \in 1..Len(BasicParsedReply[response[1]].parse.v.a) :
              BasicParsedReply[response[1]].parse.v.a[i].key = key

\* the three keys hold values that are not null, false, 0 or ""
KeysTruthy ==
    \A key \in {"gains", "actions", "recommendations"} :
        Truthy(Get(BasicParsedReply[response[1]].parse.v, key))

\* the result is the fixed fallback; the lists are lists and the gains set
FallbackOrShaped ==
    /\ ~result.aiSuccessful =>
          /\ result.gains = [memory |-> Str("75MB"), battery |-> Str("4%"), storage |-> Str("200MB")]
          /\ result.actions = StrArray(<<"Closed some background apps", "Performed basic optimization">>)
          /\ result.recommendations = StrArray(<<"Check for system updates", "Consider device maintenance">>)
    /\ DOMAIN result = {"timestamp", "gains", "actions", "recommendations", "aiSuccessful", "message"}
    /\ result.actions \in Seq({result.actions[i] : i \in 1..Len(result.actions)})
    /\ result.recommendations \in Seq({result.recommendations[i] : i \in 1..Len(result.recommendations)})
    /\ Truthy(result.gains.memory) /\ Truthy(result.gains.battery) /\ Truthy(result.gains.storage)

\* C28 (as stated): getAIOptimizations never rejects; aiSuccessful is true
\* exactly when the LLM call succeeded and the reply parsed as a JSON
\* object with gains, actions and recommendations all present; otherwise
\* the result is the fixed fallback (75MB / 4% / 200MB, the fixed lists);
\* in every result the two lists are lists and the three gains are set.
C28_SuccessIffKeysPresent ==
    BasicDone =>
        /\ settled = "resolved"
        /\ result.aiSuccessful <=> (BasicReplyParsed /\ KeysPresent)
        /\ FallbackOrShaped

\* C28 (amended): as above, with "present" read as the code tests it: each
\* of the three keys holds a truthy value (a key holding null, false, 0 or
\* "" counts as missing).
C28_SuccessIffKeysTruthy ==
    BasicDone =>
        /\ settled = "resolved"
        /\ result.aiSuccessful <=> (BasicReplyParsed /\ KeysTruthy)
        /\ FallbackOrShaped

\* a reply with one gain and actions that are no array was accepted: the
\* other gains take their defaults and the actions are an empty list
C28_Witness ==
    /\ BasicDone
    /\ result.aiSuccessful
    /\ result.gains = [memory |-> Num(90), battery |-> Str("10%"), storage |-> Str("500MB")]
    /\ result.actions = <<>>

\* C29: the optimizing flag is true from the start of startOptimization
\* until the cycle ends and false afterwards, and every cycle that was
\* started ends and resets the flag, also when the network call never
\* settles. (Stated for the screens that call the AI services; what the
\* apiClient of part_006 does with a silent server is not in the sources.)
C29_FlagResetEventually ==
    /\ [](optimizing <=> phase # "idle")
    /\ ((optimizing /\ screen \in CollectingScreens) ~> ~optimizing)

\* a result of the shape OptimizeScreen.tsx builds without AI
IsLocalResult(v) ==
    /\ DOMAIN v = {"timestamp", "gains", "actions", "recommendations", "aiSuccessful", "message"}
    /\ v.aiSuccessful = FALSE
    /\ v.message = Undef
    /\ v.gains.memory \in {Str(ToString(n) \o "MB") : n \in 50..149}
    /\ v.gains.battery \in {Str(ToString(n) \o "%") : n \in 3..10}
    /\ v.actions = StrArray(<<"Closed high memory usage apps", "Cleared system cache",
                             "Optimized background processes">>)

\* C30: a cycle started with the AI switch off issues no LLM request (and
\* runs no AI step at all); once its metrics are collected they are stored
\* and the cycle is over, with optResult left null on the advanced screens
\* and a locally made result with aiSuccessful = false on the basic
\* screen. The switch counts as of the start of the cycle: moving it
\* while the cycle runs changes nothing.
C30_SwitchOffNoRequest ==
    (screen \in CollectingScreens /\ cycle > 0 /\ ~closure.aiEnabled) =>
        /\ requests = <<>>
        /\ apiPromise = "none"
        /\ aiArgs = <<>>
        /\ IF collection = "resolved"
           THEN /\ phase = "idle"
                /\ snapshot # Undef
                /\ shownMetrics = snapshot
                /\ IF screen = "OptimizeScreen" THEN IsLocalResult(optResult)
                   ELSE optResult = Null
           ELSE optResult = Null

\* the basic screen ended a cycle that was started with the switch off,
\* while the switch had been moved back on before the metrics arrived
C30_Witness ==
    /\ screen = "OptimizeScreen"
    /\ cycle = 2
    /\ ~closure.aiEnabled
    /\ aiEnabled
    /\ phase = "idle"
    /\ shownMetrics = snapshot
    /\ IsLocalResult(optResult)
    /\ optResult.gains.memory = Str("149MB")
    /\ requests = <<>>

====
